---- MODULE Spec2Model ----
(***************************************************************************)
(* Model of the Boop rules engine (packages/boop_web/src/game/GameState.ts *)
(* and types.ts).  One GameState object; its two mutating methods,         *)
(* placePiece and chooseGraduation, are the actions.                       *)
(***************************************************************************)
EXTENDS Integers, Sequences, FiniteSets, TLC

(***************************************************************************)
(* types.ts                                                                *)
(***************************************************************************)
BOARD_SIZE == 6
PIECE_COUNT == 8

Null == "null"
PieceType == {"ok", "gk", "oc", "gc"}
Player == {"orange", "gray"}

Idx == 0 .. (BOARD_SIZE - 1)
Position == Idx \X Idx

DIRECTIONS ==
  << <<0, 1>>, <<0, -1>>, <<1, 0>>, <<-1, 0>>,
     <<1, 1>>, <<1, -1>>, <<-1, 1>>, <<-1, -1>> >>

LINE_DIRECTIONS == << <<0, 1>>, <<1, 0>>, <<1, 1>>, <<1, -1>> >>

isValidPosition(pos) ==
  pos[1] >= 0 /\ pos[1] < BOARD_SIZE /\ pos[2] >= 0 /\ pos[2] < BOARD_SIZE

getPieceColor(piece) ==
  IF piece = "ok" \/ piece = "oc" THEN "orange"
  ELSE IF piece = "gk" \/ piece = "gc" THEN "gray"
  ELSE Null

isCat(piece) == piece = "oc" \/ piece = "gc"

isKitten(piece) == piece = "ok" \/ piece = "gk"

getKittenType(player) == IF player = "orange" THEN "ok" ELSE "gk"

getCatType(player) == IF player = "orange" THEN "oc" ELSE "gc"

positionsEqual(a, b) == a[1] = b[1] /\ a[2] = b[2]

\* The comparator handed to Array.prototype.sort: p1[0] - p2[0] || p1[1] - p2[1]
comparePositions(p1, p2) ==
  IF p1[1] - p2[1] # 0 THEN p1[1] - p2[1] ELSE p1[2] - p2[2]

\* Insert p into the sorted sequence s, after every element that does not
\* compare greater (the sort is stable).
RECURSIVE insertSorted(_, _)
insertSorted(s, p) ==
  IF s = << >> THEN <<p>>
  ELSE IF comparePositions(Head(s), p) > 0 THEN <<p>> \o s
  ELSE <<Head(s)>> \o insertSorted(Tail(s), p)

RECURSIVE sortPositions(_)
sortPositions(a) ==
  IF a = << >> THEN << >>
  ELSE insertSorted(sortPositions(SubSeq(a, 1, Len(a) - 1)), a[Len(a)])

\* Variant: the two choices are compared position by position as given.
graduationChoicesEqual_unsorted(a, b) ==
  IF Len(a) # Len(b) THEN FALSE
  ELSE \A i \in 1 .. Len(a) : positionsEqual(a[i], b[i])

graduationChoicesEqual(a, b) ==
  IF Len(a) # Len(b) THEN FALSE
  ELSE LET sortedA == sortPositions(a)
           sortedB == sortPositions(b)
       IN  \A i \in 1 .. Len(sortedA) : positionsEqual(sortedA[i], sortedB[i])

(***************************************************************************)
(* Row-major enumeration of the board, the order of every                 *)
(* "for row ... for col ..." scan of GameState.ts.                         *)
(***************************************************************************)
NumSquares == BOARD_SIZE * BOARD_SIZE

scanPosition(k) == << (k - 1) \div BOARD_SIZE, (k - 1) % BOARD_SIZE >>

scanOrder == [k \in 1 .. NumSquares |-> scanPosition(k)]

stepFrom(pos, d, i) == << pos[1] + d[1] * i, pos[2] + d[2] * i >>

(***************************************************************************)
(* GameState.ts: a game state is a record of the object's fields.          *)
(***************************************************************************)
emptyBoard == [p \in Position |-> Null]

\* updateValidMoves
updateValidMoves(s) ==
  [s EXCEPT
     !.placeableSquares = SelectSeq(scanOrder, LAMBDA p : s.board[p] = Null),
     !.placeablePieces =
        IF s.currentTurn = "orange"
        THEN SelectSeq(<<"ok", "oc">>, LAMBDA p : s.availablePieces[p] > 0)
        ELSE SelectSeq(<<"gk", "gc">>, LAMBDA p : s.availablePieces[p] > 0)]

\* Variant: only the squares are cleared.
clearValidMoves_keepsPieces(s) ==
  [s EXCEPT !.placeableSquares = << >>]

clearValidMoves(s) ==
  [s EXCEPT !.placeableSquares = << >>, !.placeablePieces = << >>]

\* constructor
newGameState ==
  updateValidMoves(
    [board |-> emptyBoard,
     currentTurn |-> "orange",
     availablePieces |-> [ok |-> PIECE_COUNT, oc |-> 0, gk |-> PIECE_COUNT, gc |-> 0],
     graduatedCount |-> [oc |-> 0, gc |-> 0],
     gameOver |-> FALSE,
     winner |-> Null,
     stateMode |-> "waiting_for_placement",
     placeableSquares |-> << >>,
     placeablePieces |-> << >>,
     graduationChoices |-> << >>])

\* Variant: the turn is handed over without changing the mover.
switchTurn_keepsMover(s) ==
  updateValidMoves([s EXCEPT !.stateMode = "waiting_for_placement"])

\* switchTurn
switchTurn(s) ==
  updateValidMoves(
    [s EXCEPT
       !.currentTurn = IF s.currentTurn = "orange" THEN "gray" ELSE "orange",
       !.stateMode = "waiting_for_placement"])

\* Variant: a piece booped off the board is not returned to the pool.
boopOne_noReturn(s, position, d) ==
  LET currentPiece == s.board[position]
      adj == stepFrom(position, d, 1)
      new == stepFrom(position, d, 2)
  IN  IF ~isValidPosition(adj) THEN s
      ELSE IF s.board[adj] = Null THEN s
      ELSE IF ~(isCat(currentPiece)
                \/ (isKitten(currentPiece) /\ isKitten(s.board[adj]))) THEN s
      ELSE IF isValidPosition(new)
           THEN IF s.board[new] = Null
                THEN [s EXCEPT !.board = [@ EXCEPT ![new] = s.board[adj],
                                                   ![adj] = Null]]
                ELSE s
           ELSE [s EXCEPT !.board = [@ EXCEPT ![adj] = Null]]

\* Variant: a piece whose landing square is off the board stays where it is.
boopOne_staysAtEdge(s, position, d) ==
  LET currentPiece == s.board[position]
      adj == stepFrom(position, d, 1)
      new == stepFrom(position, d, 2)
  IN  IF ~isValidPosition(adj) THEN s
      ELSE IF s.board[adj] = Null THEN s
      ELSE IF ~(isCat(currentPiece)
                \/ (isKitten(currentPiece) /\ isKitten(s.board[adj]))) THEN s
      ELSE IF isValidPosition(new)
           THEN IF s.board[new] = Null
                THEN [s EXCEPT !.board = [@ EXCEPT ![new] = s.board[adj],
                                                   ![adj] = Null]]
                ELSE s
           ELSE s

\* Variant: every piece boops every piece.
boopOne_kittenBoopsCat(s, position, d) ==
  LET adj == stepFrom(position, d, 1)
      new == stepFrom(position, d, 2)
  IN  IF ~isValidPosition(adj) THEN s
      ELSE IF s.board[adj] = Null THEN s
      ELSE IF isValidPosition(new)
           THEN IF s.board[new] = Null
                THEN [s EXCEPT !.board = [@ EXCEPT ![new] = s.board[adj],
                                                   ![adj] = Null]]
                ELSE s
           ELSE [s EXCEPT !.board = [@ EXCEPT ![adj] = Null],
                          !.availablePieces =
                             [@ EXCEPT ![s.board[adj]] = @ + 1]]

\* Variant: the landing square is not checked for a piece.
boopOne_ignoresBlock(s, position, d) ==
  LET currentPiece == s.board[position]
      adj == stepFrom(position, d, 1)
      new == stepFrom(position, d, 2)
  IN  IF ~isValidPosition(adj) THEN s
      ELSE IF s.board[adj] = Null THEN s
      ELSE IF ~(isCat(currentPiece)
                \/ (isKitten(currentPiece) /\ isKitten(s.board[adj]))) THEN s
      ELSE IF isValidPosition(new)
           THEN [s EXCEPT !.board = [@ EXCEPT ![new] = s.board[adj],
                                              ![adj] = Null]]
           ELSE [s EXCEPT !.board = [@ EXCEPT ![adj] = Null],
                          !.availablePieces =
                             [@ EXCEPT ![s.board[adj]] = @ + 1]]

\* boopPieces: one iteration of the loop over DIRECTIONS
boopOne(s, position, d) ==
  LET currentPiece == s.board[position]
      adj == stepFrom(position, d, 1)
      new == stepFrom(position, d, 2)
  IN  IF ~isValidPosition(adj) THEN s
      ELSE IF s.board[adj] = Null THEN s
      ELSE IF ~(isCat(currentPiece)
                \/ (isKitten(currentPiece) /\ isKitten(s.board[adj]))) THEN s
      ELSE IF isValidPosition(new)
           THEN IF s.board[new] = Null
                THEN [s EXCEPT !.board = [@ EXCEPT ![new] = s.board[adj],
                                                   ![adj] = Null]]
                ELSE s
           ELSE [s EXCEPT !.board = [@ EXCEPT ![adj] = Null],
                          !.availablePieces =
                             [@ EXCEPT ![s.board[adj]] = @ + 1]]

RECURSIVE boopFrom(_, _, _)
boopFrom(s, position, i) ==
  IF i > Len(DIRECTIONS) THEN s
  ELSE boopFrom(boopOne(s, position, DIRECTIONS[i]), position, i + 1)

boopPieces(s, position) ==
  IF s.board[position] = Null THEN s ELSE boopFrom(s, position, 1)


\* getGradOptionsEight
getGradOptionsEight(s) ==
  LET positions ==
        SelectSeq(scanOrder,
                  LAMBDA p : s.board[p] # Null
                             /\ getPieceColor(s.board[p]) = s.currentTurn)
  IN  IF Len(positions) = PIECE_COUNT THEN positions ELSE << >>

\* getGradOptionsThree: the inner "for i = 1; i < 3" loop from one square in
\* one line direction; it stops at the first square that is off the board,
\* empty or of the other colour.
\* Variant: a piece of either colour continues a line.
RECURSIVE lineFrom_anyColor(_, _, _, _, _)
lineFrom_anyColor(s, pos, d, color, i) ==
  IF i >= 3 THEN << >>
  ELSE LET new == stepFrom(pos, d, i)
       IN  IF ~isValidPosition(new) THEN << >>
           ELSE IF s.board[new] = Null THEN << >>
           ELSE <<new>> \o lineFrom_anyColor(s, pos, d, color, i + 1)

RECURSIVE lineFrom(_, _, _, _, _)
lineFrom(s, pos, d, color, i) ==
  IF i >= 3 THEN << >>
  ELSE LET new == stepFrom(pos, d, i)
       IN  IF ~isValidPosition(new) THEN << >>
           ELSE IF s.board[new] = Null \/ getPieceColor(s.board[new]) # color
                THEN << >>
           ELSE <<new>> \o lineFrom(s, pos, d, color, i + 1)

RECURSIVE threeDirsFrom(_, _, _)
threeDirsFrom(s, pos, j) ==
  IF j > Len(LINE_DIRECTIONS) THEN << >>
  ELSE LET positions ==
             <<pos>> \o lineFrom(s, pos, LINE_DIRECTIONS[j],
                                 getPieceColor(s.board[pos]), 1)
       IN  (IF Len(positions) = 3 THEN <<positions>> ELSE << >>)
           \o threeDirsFrom(s, pos, j + 1)

\* The outer loops: the squares of the current player in scan order, each
\* with its lines in the order of LINE_DIRECTIONS.
RECURSIVE threeSquaresFrom(_, _)
threeSquaresFrom(s, squares) ==
  IF squares = << >> THEN << >>
  ELSE threeDirsFrom(s, Head(squares), 1) \o threeSquaresFrom(s, Tail(squares))

getGradOptionsThree(s) ==
  threeSquaresFrom(s, SelectSeq(scanOrder,
                                LAMBDA p : s.board[p] # Null
                                           /\ getPieceColor(s.board[p]) = s.currentTurn))

\* calculateGraduationChoices
calculateGraduationChoices(s) ==
  LET eightOptions == getGradOptionsEight(s)
      threeOptions == getGradOptionsThree(s)
      singleChoices == [i \in 1 .. Len(eightOptions) |-> << eightOptions[i] >>]
  IN  [s EXCEPT !.graduationChoices = singleChoices \o threeOptions]

\* Variant: a cat taken off the board counts as a graduation too.
graduateOne_creditsCat(s, pos) ==
  LET piece == s.board[pos]
  IN  IF piece = Null THEN s
      ELSE LET catType == IF getPieceColor(piece) = "orange" THEN "oc" ELSE "gc"
           IN  [s EXCEPT !.board = [@ EXCEPT ![pos] = Null],
                         !.availablePieces = [@ EXCEPT ![catType] = @ + 1],
                         !.graduatedCount = [@ EXCEPT ![catType] = @ + 1]]

\* Variant: the piece taken off the board does not go to the reserve.
graduateOne_notReturned(s, pos) ==
  LET piece == s.board[pos]
  IN  IF piece = Null THEN s
      ELSE IF isKitten(piece)
      THEN LET catType == IF piece = "ok" THEN "oc" ELSE "gc"
           IN  [s EXCEPT !.board = [@ EXCEPT ![pos] = Null],
                         !.graduatedCount = [@ EXCEPT ![catType] = @ + 1]]
      ELSE [s EXCEPT !.board = [@ EXCEPT ![pos] = Null]]

\* performGraduation: one iteration of the loop over the positions
graduateOne(s, pos) ==
  LET piece == s.board[pos]
  IN  IF piece = Null THEN s
      ELSE IF isKitten(piece)
      THEN LET catType == IF piece = "ok" THEN "oc" ELSE "gc"
           IN  [s EXCEPT !.board = [@ EXCEPT ![pos] = Null],
                         !.availablePieces = [@ EXCEPT ![catType] = @ + 1],
                         !.graduatedCount = [@ EXCEPT ![catType] = @ + 1]]
      ELSE [s EXCEPT !.board = [@ EXCEPT ![pos] = Null],
                     !.availablePieces = [@ EXCEPT ![piece] = @ + 1]]

RECURSIVE performGraduation(_, _)
performGraduation(s, positions) ==
  IF positions = << >> THEN s
  ELSE performGraduation(graduateOne(s, Head(positions)), Tail(positions))

\* checkForWin, first loop: the "count" reached from one cat in one direction
RECURSIVE catRun(_, _, _, _, _)
catRun(s, pos, d, piece, i) ==
  IF i >= 3 THEN 0
  ELSE LET new == stepFrom(pos, d, i)
       IN  IF ~isValidPosition(new) THEN 0
           ELSE IF s.board[new] # piece THEN 0
           ELSE 1 + catRun(s, pos, d, piece, i + 1)

\* The squares, in scan order, from which the first loop finds count = 3.
threeCatsAt(s, k) ==
  /\ isCat(s.board[scanPosition(k)])
  /\ \E j \in 1 .. Len(LINE_DIRECTIONS) :
       1 + catRun(s, scanPosition(k), LINE_DIRECTIONS[j],
                  s.board[scanPosition(k)], 1) = 3

countOnBoard(b, piece) == Cardinality({p \in Position : b[p] = piece})

\* Variant: only lines of three cats win.
checkForWin_noEightCats(s) ==
  LET hits == {k \in 1 .. NumSquares : threeCatsAt(s, k)}
  IN  IF hits # {}
      THEN LET first == CHOOSE k \in hits : \A m \in hits : k <= m
               piece == s.board[scanPosition(first)]
           IN  [s EXCEPT !.gameOver = TRUE,
                         !.winner = IF piece = "oc" THEN "orange" ELSE "gray"]
      ELSE s

checkForWin(s) ==
  LET hits == {k \in 1 .. NumSquares : threeCatsAt(s, k)}
  IN  IF hits # {}
      THEN LET first == CHOOSE k \in hits : \A m \in hits : k <= m
               piece == s.board[scanPosition(first)]
           IN  [s EXCEPT !.gameOver = TRUE,
                         !.winner = IF piece = "oc" THEN "orange" ELSE "gray"]
      ELSE LET orangeCats == countOnBoard(s.board, "oc")
               grayCats == countOnBoard(s.board, "gc")
           IN  IF orangeCats = 8
               THEN [s EXCEPT !.gameOver = TRUE, !.winner = "orange"]
               ELSE IF grayCats = 8
               THEN [s EXCEPT !.gameOver = TRUE, !.winner = "gray"]
               ELSE s

(***************************************************************************)
(* The two mutating methods.  Each returns the state it leaves behind and  *)
(* the Error it throws (NoError when it returns normally).                 *)
(***************************************************************************)
NoError == "none"
ErrGameOver == "Game is already over."
ErrWaitingForGraduation == "Game is waiting for graduation choice."
ErrNotOrangesTurn == "It's not orange's turn."
ErrNotGraysTurn == "It's not gray's turn."
ErrOccupied == "Board position is already occupied."
ErrNoPieces == "No more pieces of this type available."
ErrNotWaitingForGraduation == "Game is not waiting for graduation choice."
ErrInvalidChoice == "Invalid graduation choice."

\* placePiece lines 165-170: the piece is placed, the reserve decremented and
\* the neighbours booped.
placeAndBoop(s, pieceType, position) ==
  boopPieces([s EXCEPT !.board = [@ EXCEPT ![position] = pieceType],
                       !.availablePieces = [@ EXCEPT ![pieceType] = @ - 1]],
             position)

\* Variant: with any options the first is performed, without asking.
resolvePlacement_alwaysAuto(s) ==
  LET won == checkForWin(s)
      opts == calculateGraduationChoices(won)
  IN  IF won.gameOver THEN won
      ELSE IF Len(opts.graduationChoices) >= 1
      THEN switchTurn([performGraduation(opts, opts.graduationChoices[1])
                         EXCEPT !.graduationChoices = << >>])
      ELSE switchTurn(opts)

\* placePiece lines 172-193: win check, graduation options, resolution.
resolvePlacement(s) ==
  LET won == checkForWin(s)
      opts == calculateGraduationChoices(won)
  IN  IF won.gameOver THEN won
      ELSE IF Len(opts.graduationChoices) = 1
      THEN switchTurn([performGraduation(opts, opts.graduationChoices[1])
                         EXCEPT !.graduationChoices = << >>])
      ELSE IF Len(opts.graduationChoices) > 1
      THEN [clearValidMoves(opts) EXCEPT !.stateMode = "waiting_for_graduation_choice"]
      ELSE switchTurn(opts)

\* Variant: the pool is not checked.
placePieceError_noReserveCheck(s, pieceType, position) ==
  IF s.gameOver THEN ErrGameOver
  ELSE IF s.stateMode = "waiting_for_graduation_choice" THEN ErrWaitingForGraduation
  ELSE IF (pieceType = "ok" \/ pieceType = "oc") /\ s.currentTurn # "orange"
       THEN ErrNotOrangesTurn
  ELSE IF (pieceType = "gk" \/ pieceType = "gc") /\ s.currentTurn # "gray"
       THEN ErrNotGraysTurn
  ELSE IF s.board[position] # Null THEN ErrOccupied
  ELSE NoError

\* Variant: a finished game still takes placements.
placePieceError_noGameOverCheck(s, pieceType, position) ==
  IF s.stateMode = "waiting_for_graduation_choice" THEN ErrWaitingForGraduation
  ELSE IF (pieceType = "ok" \/ pieceType = "oc") /\ s.currentTurn # "orange"
       THEN ErrNotOrangesTurn
  ELSE IF (pieceType = "gk" \/ pieceType = "gc") /\ s.currentTurn # "gray"
       THEN ErrNotGraysTurn
  ELSE IF s.board[position] # Null THEN ErrOccupied
  ELSE IF s.availablePieces[pieceType] = 0 THEN ErrNoPieces
  ELSE NoError

placePieceError(s, pieceType, position) ==
  IF s.gameOver THEN ErrGameOver
  ELSE IF s.stateMode = "waiting_for_graduation_choice" THEN ErrWaitingForGraduation
  ELSE IF (pieceType = "ok" \/ pieceType = "oc") /\ s.currentTurn # "orange"
       THEN ErrNotOrangesTurn
  ELSE IF (pieceType = "gk" \/ pieceType = "gc") /\ s.currentTurn # "gray"
       THEN ErrNotGraysTurn
  ELSE IF s.board[position] # Null THEN ErrOccupied
  ELSE IF s.availablePieces[pieceType] = 0 THEN ErrNoPieces
  ELSE NoError

placePiece(s, pieceType, position) ==
  LET err == placePieceError(s, pieceType, position)
  IN  IF err # NoError THEN [state |-> s, error |-> err]
      ELSE [state |-> resolvePlacement(placeAndBoop(s, pieceType, position)),
            error |-> NoError]

\* this.graduationChoices.find(c => graduationChoicesEqual(c, choice)):
\* the index of the first match, 0 when there is none.
findChoice(s, choice) ==
  LET matches == {i \in 1 .. Len(s.graduationChoices) :
                    graduationChoicesEqual(s.graduationChoices[i], choice)}
  IN  IF matches = {} THEN 0
      ELSE CHOOSE i \in matches : \A m \in matches : i <= m

\* Variant: the options stay on the list after the choice.
chooseGraduation_keepsChoices(s, choice) ==
  IF s.stateMode # "waiting_for_graduation_choice"
  THEN [state |-> s, error |-> ErrNotWaitingForGraduation]
  ELSE LET found == findChoice(s, choice)
       IN  IF found = 0 THEN [state |-> s, error |-> ErrInvalidChoice]
           ELSE [state |-> switchTurn(
                             performGraduation(s, s.graduationChoices[found])),
                 error |-> NoError]

chooseGraduation(s, choice) ==
  IF s.stateMode # "waiting_for_graduation_choice"
  THEN [state |-> s, error |-> ErrNotWaitingForGraduation]
  ELSE LET found == findChoice(s, choice)
       IN  IF found = 0 THEN [state |-> s, error |-> ErrInvalidChoice]
           ELSE [state |-> switchTurn(
                             [performGraduation(s, s.graduationChoices[found])
                                EXCEPT !.graduationChoices = << >>]),
                 error |-> NoError]


(***************************************************************************)
(* tensor.ts: the encoding of a game state as a tensor of 9 channels of    *)
(* 6 x 6 numbers (a Float32Array of 324 entries, here a function on        *)
(* 0 .. 323), and the encoding of moves as action indices.                 *)
(***************************************************************************)
NUM_CHANNELS == 9
ACTION_SIZE == 188

ACTION_KITTEN_END == 36
ACTION_CAT_END == 72
ACTION_SINGLE_GRAD_END == 108
ACTION_HORIZ_GRAD_END == 132
ACTION_VERT_GRAD_END == 156
ACTION_DIAG_UP_END == 172

PLACE_KITTEN == 0
PLACE_CAT == 1
SINGLE_GRADUATION == 2
HORIZONTAL_TRIPLE_GRADUATION == 3
VERTICAL_TRIPLE_GRADUATION == 4
DIAGONAL_TRIPLE_GRADUATION_UP == 5
DIAGONAL_TRIPLE_GRADUATION_DOWN == 6

MoveType == PLACE_KITTEN .. DIAGONAL_TRIPLE_GRADUATION_DOWN

channelSize == BOARD_SIZE * BOARD_SIZE

TensorIndex == 0 .. (NUM_CHANNELS * channelSize - 1)

\* The channel, and the square, of entry i of a tensor.
channelOf(i) == i \div channelSize

squareOf(i) == << (i % channelSize) \div BOARD_SIZE, (i % channelSize) % BOARD_SIZE >>

\* getAt(channel, row, col)
getAt(tensor, channel, row, col) ==
  tensor[channel * channelSize + row * BOARD_SIZE + col]

\* Variant: the reserve channels are filled in the order ok, oc, gk, gc.
gameStateToTensor_countsByOwner(state) ==
  [i \in TensorIndex |->
     LET channel == channelOf(i)
         piece == state.board[squareOf(i)]
     IN  CASE channel = 0 ->
                IF state.stateMode = "waiting_for_graduation_choice" THEN 1 ELSE 0
           [] channel = 1 -> IF piece = "ok" THEN 1 ELSE 0
           [] channel = 2 -> IF piece = "gk" THEN 1 ELSE 0
           [] channel = 3 -> IF piece = "oc" THEN 1 ELSE 0
           [] channel = 4 -> IF piece = "gc" THEN 1 ELSE 0
           [] channel = 5 -> state.availablePieces["ok"]
           [] channel = 6 -> state.availablePieces["oc"]
           [] channel = 7 -> state.availablePieces["gk"]
           [] channel = 8 -> state.availablePieces["gc"]]

gameStateToTensor(state) ==
  [i \in TensorIndex |->
     LET channel == channelOf(i)
         piece == state.board[squareOf(i)]
     IN  CASE channel = 0 ->
                IF state.stateMode = "waiting_for_graduation_choice" THEN 1 ELSE 0
           [] channel = 1 -> IF piece = "ok" THEN 1 ELSE 0
           [] channel = 2 -> IF piece = "gk" THEN 1 ELSE 0
           [] channel = 3 -> IF piece = "oc" THEN 1 ELSE 0
           [] channel = 4 -> IF piece = "gc" THEN 1 ELSE 0
           [] channel = 5 -> state.availablePieces["ok"]
           [] channel = 6 -> state.availablePieces["gk"]
           [] channel = 7 -> state.availablePieces["oc"]
           [] channel = 8 -> state.availablePieces["gc"]]

\* The board read from channels 1-4 and the reserves read from channels 5-8
\* into a state made by the constructor (tensorToGameState lines 132-154,
\* and the same lines of the three helpers of MCTS.ts).
readTensor(tensor) ==
  [newGameState EXCEPT
     !.board =
        [pos \in Position |->
           IF getAt(tensor, 1, pos[1], pos[2]) = 1 THEN "ok"
           ELSE IF getAt(tensor, 2, pos[1], pos[2]) = 1 THEN "gk"
           ELSE IF getAt(tensor, 3, pos[1], pos[2]) = 1 THEN "oc"
           ELSE IF getAt(tensor, 4, pos[1], pos[2]) = 1 THEN "gc"
           ELSE Null],
     !.availablePieces =
        [ok |-> getAt(tensor, 5, 0, 0), gk |-> getAt(tensor, 6, 0, 0),
         oc |-> getAt(tensor, 7, 0, 0), gc |-> getAt(tensor, 8, 0, 0)]]

\* The mode read from channel 0, and the moves of that mode computed.
readMode(tensor, state) ==
  IF getAt(tensor, 0, 0, 0) = 0
  THEN updateValidMoves([state EXCEPT !.stateMode = "waiting_for_placement"])
  ELSE calculateGraduationChoices(
         [state EXCEPT !.stateMode = "waiting_for_graduation_choice"])

\* Variant: the graduation choices are not computed.
tensorToGameState_noChoices(tensor, player) ==
  LET state == [readTensor(tensor) EXCEPT
                  !.currentTurn = IF player = 1 THEN "orange" ELSE "gray"]
  IN  IF getAt(tensor, 0, 0, 0) = 0
      THEN updateValidMoves([state EXCEPT !.stateMode = "waiting_for_placement"])
      ELSE [state EXCEPT !.stateMode = "waiting_for_graduation_choice"]

tensorToGameState(tensor, player) ==
  readMode(tensor,
           [readTensor(tensor) EXCEPT
              !.currentTurn = IF player = 1 THEN "orange" ELSE "gray"])

\* Variant: the channels of the reserves are not swapped.
getCanonicalForm_boardOnly(tensor, player) ==
  IF player = 1 THEN tensor
  ELSE [i \in TensorIndex |->
          LET c == channelOf(i)
          IN  IF c = 0 \/ c >= 5 THEN tensor[i]
              ELSE IF c % 2 = 1 THEN tensor[i + channelSize]
              ELSE tensor[i - channelSize]]

\* getCanonicalForm: for c = 1, 3, 5, 7 the channels c and c + 1 change
\* places.
getCanonicalForm(tensor, player) ==
  IF player = 1 THEN tensor
  ELSE [i \in TensorIndex |->
          LET c == channelOf(i)
          IN  IF c = 0 THEN tensor[i]
              ELSE IF c % 2 = 1 THEN tensor[i + channelSize]
              ELSE tensor[i - channelSize]]

\* The % of JavaScript: the remainder has the sign of the dividend.
jsRem(a, b) == IF a >= 0 THEN a % b ELSE 0 - ((0 - a) % b)

\* Variant: the vertical graduations are decoded four to a row.
actionToMove_vertByFour(action) ==
  IF action < ACTION_KITTEN_END
  THEN [position |-> << action \div 6, jsRem(action, 6) >>,
        moveType |-> PLACE_KITTEN]
  ELSE IF action < ACTION_CAT_END
  THEN LET a == action - ACTION_KITTEN_END
       IN  [position |-> << a \div 6, jsRem(a, 6) >>, moveType |-> PLACE_CAT]
  ELSE IF action < ACTION_SINGLE_GRAD_END
  THEN LET a == action - ACTION_CAT_END
       IN  [position |-> << a \div 6, jsRem(a, 6) >>,
            moveType |-> SINGLE_GRADUATION]
  ELSE IF action < ACTION_HORIZ_GRAD_END
  THEN LET a == action - ACTION_SINGLE_GRAD_END
       IN  [position |-> << a \div 4, 1 + jsRem(a, 4) >>,
            moveType |-> HORIZONTAL_TRIPLE_GRADUATION]
  ELSE IF action < ACTION_VERT_GRAD_END
  THEN LET a == action - ACTION_HORIZ_GRAD_END
       IN  [position |-> << 1 + (a \div 4), jsRem(a, 4) >>,
            moveType |-> VERTICAL_TRIPLE_GRADUATION]
  ELSE IF action < ACTION_DIAG_UP_END
  THEN LET a == action - ACTION_VERT_GRAD_END
       IN  [position |-> << 1 + (a \div 4), 1 + jsRem(a, 4) >>,
            moveType |-> DIAGONAL_TRIPLE_GRADUATION_UP]
  ELSE LET a == action - ACTION_DIAG_UP_END
       IN  [position |-> << 1 + (a \div 4), 1 + jsRem(a, 4) >>,
            moveType |-> DIAGONAL_TRIPLE_GRADUATION_DOWN]

\* actionToMove; Math.floor(x / n) is x \div n.
actionToMove(action) ==
  IF action < ACTION_KITTEN_END
  THEN [position |-> << action \div 6, jsRem(action, 6) >>,
        moveType |-> PLACE_KITTEN]
  ELSE IF action < ACTION_CAT_END
  THEN LET a == action - ACTION_KITTEN_END
       IN  [position |-> << a \div 6, jsRem(a, 6) >>, moveType |-> PLACE_CAT]
  ELSE IF action < ACTION_SINGLE_GRAD_END
  THEN LET a == action - ACTION_CAT_END
       IN  [position |-> << a \div 6, jsRem(a, 6) >>,
            moveType |-> SINGLE_GRADUATION]
  ELSE IF action < ACTION_HORIZ_GRAD_END
  THEN LET a == action - ACTION_SINGLE_GRAD_END
       IN  [position |-> << a \div 4, 1 + jsRem(a, 4) >>,
            moveType |-> HORIZONTAL_TRIPLE_GRADUATION]
  ELSE IF action < ACTION_VERT_GRAD_END
  THEN LET a == action - ACTION_HORIZ_GRAD_END
       IN  [position |-> << 1 + (a \div 6), jsRem(a, 6) >>,
            moveType |-> VERTICAL_TRIPLE_GRADUATION]
  ELSE IF action < ACTION_DIAG_UP_END
  THEN LET a == action - ACTION_VERT_GRAD_END
       IN  [position |-> << 1 + (a \div 4), 1 + jsRem(a, 4) >>,
            moveType |-> DIAGONAL_TRIPLE_GRADUATION_UP]
  ELSE LET a == action - ACTION_DIAG_UP_END
       IN  [position |-> << 1 + (a \div 4), 1 + jsRem(a, 4) >>,
            moveType |-> DIAGONAL_TRIPLE_GRADUATION_DOWN]

moveToAction(moveType, position) ==
  LET row == position[1]
      col == position[2]
  IN  CASE moveType = PLACE_KITTEN -> row * 6 + col
        [] moveType = PLACE_CAT -> 36 + row * 6 + col
        [] moveType = SINGLE_GRADUATION -> 72 + row * 6 + col
        [] moveType = HORIZONTAL_TRIPLE_GRADUATION -> 108 + row * 4 + (col - 1)
        [] moveType = VERTICAL_TRIPLE_GRADUATION -> 132 + (row - 1) * 6 + col
        [] moveType = DIAGONAL_TRIPLE_GRADUATION_UP -> 156 + (row - 1) * 4 + (col - 1)
        [] moveType = DIAGONAL_TRIPLE_GRADUATION_DOWN -> 172 + (row - 1) * 4 + (col - 1)

\* getValidMoves, graduation mode: the index set to 1 for one choice (none
\* when the choice has neither 1 nor 3 positions).
choiceAction(choice) ==
  IF Len(choice) = 1
  THEN {72 + choice[1][1] * 6 + choice[1][2]}
  ELSE IF Len(choice) = 3
  THEN LET sorted == sortPositions(choice)
           row == sorted[2][1]
           col == sorted[2][2]
       IN  IF choice[1][1] = choice[2][1] /\ choice[2][1] = choice[3][1]
           THEN IF col > 0 /\ col < 5 THEN {108 + row * 4 + (col - 1)} ELSE {}
           ELSE IF choice[1][2] = choice[2][2] /\ choice[2][2] = choice[3][2]
           THEN IF row > 0 /\ row < 5 THEN {132 + (row - 1) * 6 + col} ELSE {}
           ELSE IF row > 0 /\ row < 5 /\ col > 0 /\ col < 5
           THEN IF sorted[1][2] > sorted[2][2]
                THEN {156 + (row - 1) * 4 + (col - 1)}
                ELSE {172 + (row - 1) * 4 + (col - 1)}
           ELSE {}
  ELSE {}

\* Variant: every placeable square takes a kitten and a cat.
validActions_anyPiece(state) ==
  IF state.stateMode = "waiting_for_graduation_choice"
  THEN UNION {choiceAction(state.graduationChoices[i]) :
                i \in 1 .. Len(state.graduationChoices)}
  ELSE UNION {{sq[1] * 6 + sq[2], 36 + sq[1] * 6 + sq[2]} :
                sq \in {state.placeableSquares[i] :
                          i \in 1 .. Len(state.placeableSquares)}}

\* getValidMoves: the indices the loops set to 1.
validActions(state) ==
  IF state.stateMode = "waiting_for_graduation_choice"
  THEN UNION {choiceAction(state.graduationChoices[i]) :
                i \in 1 .. Len(state.graduationChoices)}
  ELSE {IF state.placeablePieces[j] \in {"ok", "gk"}
        THEN state.placeableSquares[i][1] * 6 + state.placeableSquares[i][2]
        ELSE 36 + state.placeableSquares[i][1] * 6 + state.placeableSquares[i][2] :
          <<i, j>> \in (1 .. Len(state.placeableSquares))
                         \X (1 .. Len(state.placeablePieces))}

getValidMoves(state) ==
  LET ones == validActions(state)
  IN  [a \in 0 .. (ACTION_SIZE - 1) |-> IF a \in ones THEN 1 ELSE 0]

\* placePiece on a position that is not on the board: after the checks of
\* the game, the mode and the turn, this.board[row][col] throws a TypeError
\* when there is no row, and is undefined, which is not null, when there is
\* no column.
ErrTypeError == "TypeError"

placePieceOffBoard(s, pieceType, position) ==
  IF s.gameOver THEN ErrGameOver
  ELSE IF s.stateMode = "waiting_for_graduation_choice" THEN ErrWaitingForGraduation
  ELSE IF (pieceType = "ok" \/ pieceType = "oc") /\ s.currentTurn # "orange"
       THEN ErrNotOrangesTurn
  ELSE IF (pieceType = "gk" \/ pieceType = "gc") /\ s.currentTurn # "gray"
       THEN ErrNotGraysTurn
  ELSE IF position[1] \notin Idx THEN ErrTypeError
  ELSE ErrOccupied

\* applyAction: the choice of a graduation move
\* Variant: the two diagonals are taken for each other.
actionChoice_diagonalsSwapped(moveType, position) ==
  LET row == position[1]
      col == position[2]
  IN  CASE moveType = SINGLE_GRADUATION -> << <<row, col>> >>
        [] moveType = HORIZONTAL_TRIPLE_GRADUATION ->
             << <<row, col - 1>>, <<row, col>>, <<row, col + 1>> >>
        [] moveType = VERTICAL_TRIPLE_GRADUATION ->
             << <<row - 1, col>>, <<row, col>>, <<row + 1, col>> >>
        [] moveType = DIAGONAL_TRIPLE_GRADUATION_UP ->
             << <<row - 1, col - 1>>, <<row, col>>, <<row + 1, col + 1>> >>
        [] moveType = DIAGONAL_TRIPLE_GRADUATION_DOWN ->
             << <<row - 1, col + 1>>, <<row, col>>, <<row + 1, col - 1>> >>

actionChoice(moveType, position) ==
  LET row == position[1]
      col == position[2]
  IN  CASE moveType = SINGLE_GRADUATION -> << <<row, col>> >>
        [] moveType = HORIZONTAL_TRIPLE_GRADUATION ->
             << <<row, col - 1>>, <<row, col>>, <<row, col + 1>> >>
        [] moveType = VERTICAL_TRIPLE_GRADUATION ->
             << <<row - 1, col>>, <<row, col>>, <<row + 1, col>> >>
        [] moveType = DIAGONAL_TRIPLE_GRADUATION_UP ->
             << <<row - 1, col + 1>>, <<row, col>>, <<row + 1, col - 1>> >>
        [] moveType = DIAGONAL_TRIPLE_GRADUATION_DOWN ->
             << <<row - 1, col - 1>>, <<row, col>>, <<row + 1, col + 1>> >>

\* applyAction: the move is made on the state
applyMove(state, player, move) ==
  IF move.moveType = PLACE_KITTEN \/ move.moveType = PLACE_CAT
  THEN LET piece == IF move.moveType = PLACE_KITTEN
                    THEN (IF player = 1 THEN "ok" ELSE "gk")
                    ELSE (IF player = 1 THEN "oc" ELSE "gc")
       IN  IF isValidPosition(move.position)
           THEN placePiece(state, piece, move.position)
           ELSE [state |-> state,
                 error |-> placePieceOffBoard(state, piece, move.position)]
  ELSE chooseGraduation(state, actionChoice(move.moveType, move.position))

\* applyAction: the next player, r being the state the move left and the
\* Error it threw
nextOf(player, r) ==
  [state |-> r.state,
   nextPlayer |-> IF r.state.stateMode = "waiting_for_graduation_choice"
                  THEN player ELSE 0 - player,
   error |-> r.error]

\* applyAction: the new state, the next player and the Error thrown on the
\* way (NoError when it returns).
applyAction(state, player, action) ==
  nextOf(player, applyMove(state, player, actionToMove(action)))

getGameEnded(state, player) ==
  IF ~state.gameOver THEN 0
  ELSE IF state.winner = (IF player = 1 THEN "orange" ELSE "gray") THEN 1
  ELSE -1

\* A string is the sequence of its characters.  numberToString is the
\* decimal text a template literal and join give for a whole number that is
\* not negative.
Digits == << "0", "1", "2", "3", "4", "5", "6", "7", "8", "9" >>

RECURSIVE numberToString(_)
numberToString(n) ==
  IF n < 10 THEN << Digits[n + 1] >>
  ELSE numberToString(n \div 10) \o << Digits[(n % 10) + 1] >>

\* pieces.join(''): the texts of the entries one after the other, nothing
\* between them.
RECURSIVE join(_)
join(pieces) ==
  IF Len(pieces) = 0 THEN << >>
  ELSE IF Len(pieces) = 1 THEN numberToString(pieces[1])
  ELSE LET half == Len(pieces) \div 2
       IN  join(SubSeq(pieces, 1, half))
             \o join(SubSeq(pieces, half + 1, Len(pieces)))

\* Variant: of each of the channels 1-4 only the first entry is in the key.
tensorToString_firstEntries(tensor) ==
  numberToString(tensor[0]) \o << "," >>
    \o numberToString(tensor[5 * channelSize]) \o << "," >>
    \o numberToString(tensor[6 * channelSize]) \o << "," >>
    \o numberToString(tensor[7 * channelSize]) \o << "," >>
    \o numberToString(tensor[8 * channelSize]) \o << "," >>
    \o join([c \in 1 .. 4 |-> tensor[c * channelSize]])

\* tensorToString: the first entry of channels 0, 5, 6, 7 and 8, a comma
\* after each, and then every entry of channels 1-4, in this order.
tensorToString(tensor) ==
  numberToString(tensor[0]) \o << "," >>
    \o numberToString(tensor[5 * channelSize]) \o << "," >>
    \o numberToString(tensor[6 * channelSize]) \o << "," >>
    \o numberToString(tensor[7 * channelSize]) \o << "," >>
    \o numberToString(tensor[8 * channelSize]) \o << "," >>
    \o join([k \in 1 .. (4 * channelSize) |-> tensor[channelSize + k - 1]])

(***************************************************************************)
(* MCTS.ts: the tables of the search are maps, modelled as functions on    *)
(* the keys they hold.  A number the search divides (a prior, a mean       *)
(* value, a probability) is kept as the exact fraction num / den in lowest *)
(* terms, den > 0.                                                         *)
(***************************************************************************)
RECURSIVE gcd(_, _)
gcd(a, b) == IF b = 0 THEN a ELSE gcd(b, a % b)

abs(x) == IF x < 0 THEN 0 - x ELSE x

Rat(num, den) ==
  LET g == gcd(abs(num), den)
  IN  [num |-> num \div g, den |-> den \div g]

ratSub(x, y) == Rat(x.num * y.den - y.num * x.den, x.den * y.den)

sign(x) == IF x > 0 THEN 1 ELSE IF x < 0 THEN -1 ELSE 0

\* The sign of d + e * Math.sqrt(n) for fractions d and e and an integer
\* n >= 1.
signSurd(d, e, n) ==
  LET sd == sign(d.num)
      se == sign(e.num)
      left == d.num * d.num * e.den * e.den
      right == e.num * e.num * d.den * d.den * n
  IN  IF se = 0 THEN sd
      ELSE IF sd = 0 \/ sd = se THEN se
      ELSE IF left > right THEN sd
      ELSE IF left < right THEN se
      ELSE 0

\* EPS = 1e-8 and its square root
EPS == [num |-> 1, den |-> 100000000]

sqrtEPS == [num |-> 1, den |-> 10000]

\* DEFAULT_OPTIONS.cpuct
cpuct == 1

\* The array (or the board) with the entries of f, each computed once.
array(f) == f @@ << >>

\* Map.set
put(map, key, value) ==
  [k \in (DOMAIN map) \cup {key} |-> IF k = key THEN value ELSE map[k]]

\* constructor, reset: the six empty maps
emptyTables ==
  [Qsa |-> << >>, Nsa |-> << >>, Ns |-> << >>, Ps |-> << >>, Es |-> << >>,
   Vs |-> << >>]

\* checkThreeCats
checkThreeCats(tensor, catChannel) ==
  \E r \in Idx, c \in Idx :
    /\ getAt(tensor, catChannel, r, c) = 1
    /\ \/ /\ c <= 3
          /\ getAt(tensor, catChannel, r, c + 1) = 1
          /\ getAt(tensor, catChannel, r, c + 2) = 1
       \/ /\ r <= 3
          /\ getAt(tensor, catChannel, r + 1, c) = 1
          /\ getAt(tensor, catChannel, r + 2, c) = 1
       \/ /\ r <= 3 /\ c <= 3
          /\ getAt(tensor, catChannel, r + 1, c + 1) = 1
          /\ getAt(tensor, catChannel, r + 2, c + 2) = 1
       \/ /\ r <= 3 /\ c >= 2
          /\ getAt(tensor, catChannel, r + 1, c - 1) = 1
          /\ getAt(tensor, catChannel, r + 2, c - 2) = 1

\* checkEightCats
checkEightCats(tensor, catChannel) ==
  Cardinality({pos \in Position : getAt(tensor, catChannel, pos[1], pos[2]) = 1}) = 8

checkGameEndedFromTensor(tensor) ==
  IF checkThreeCats(tensor, 3) \/ checkEightCats(tensor, 3) THEN 1
  ELSE IF checkThreeCats(tensor, 4) \/ checkEightCats(tensor, 4) THEN -1
  ELSE 0

\* The state the helpers rebuild from a canonical tensor: orange is to move.
stateFromTensor(tensor) ==
  readMode(tensor, [readTensor(tensor) EXCEPT !.board = array(@),
                                              !.currentTurn = "orange"])

getValidMovesFromTensor(tensor) == array(getValidMoves(stateFromTensor(tensor)))

\* applyActionToTensor: the new state is converted back to a tensor
toTensor(r) ==
  [tensor |-> array(gameStateToTensor(r.state)), nextPlayer |-> r.nextPlayer,
   error |-> r.error]

applyActionToTensor(tensor, action) ==
  toTensor(applyAction(stateFromTensor(tensor), 1, action))

\* The sum of f[lo], ..., f[hi], as the loops of search and getActionProb
\* add the entries up.
RECURSIVE sumOver(_, _, _)
sumOver(f, lo, hi) ==
  IF lo = hi THEN f[lo]
  ELSE sumOver(f, lo, (lo + hi) \div 2) + sumOver(f, (lo + hi) \div 2 + 1, hi)

\* Variant: the policy is renormalized over the valid moves and left as it
\* is on the others.
maskedPolicy_notMasked(policy, valids) ==
  LET masked == array([a \in 0 .. (ACTION_SIZE - 1) |-> policy[a] * valids[a]])
      total == sumOver(masked, 0, ACTION_SIZE - 1)
      validCount == sumOver(valids, 0, ACTION_SIZE - 1)
  IN  array(IF total > 0
            THEN [a \in 0 .. (ACTION_SIZE - 1) |-> Rat(policy[a], total)]
            ELSE IF validCount > 0
            THEN [a \in 0 .. (ACTION_SIZE - 1) |-> Rat(valids[a], validCount)]
            ELSE [a \in 0 .. (ACTION_SIZE - 1) |-> Rat(0, 1)])

\* search, leaf expansion: the policy of the evaluator (a weight for every
\* index, the policy being the weights over their total) masked by the
\* valid moves and renormalized, uniform over the valid moves when the
\* masked policy is all zero.
maskedPolicy(policy, valids) ==
  LET masked == array([a \in 0 .. (ACTION_SIZE - 1) |-> policy[a] * valids[a]])
      total == sumOver(masked, 0, ACTION_SIZE - 1)
      validCount == sumOver(valids, 0, ACTION_SIZE - 1)
  IN  array(IF total > 0
            THEN [a \in 0 .. (ACTION_SIZE - 1) |-> Rat(masked[a], total)]
            ELSE IF validCount > 0
            THEN [a \in 0 .. (ACTION_SIZE - 1) |-> Rat(valids[a], validCount)]
            ELSE [a \in 0 .. (ACTION_SIZE - 1) |-> Rat(0, 1)])

\* search, selection: u of action a at node s is q + b * Math.sqrt(ns) when
\* Qsa has the key, and b * Math.sqrt(ns + EPS) when it has not.
ucb(m, s, a) ==
  LET key == <<s, a>>
      ps == m.Ps[s][a]
  IN  IF key \in DOMAIN m.Qsa
      THEN [q |-> m.Qsa[key],
            b |-> [num |-> cpuct * ps.num, den |-> ps.den * (1 + m.Nsa[key])],
            fresh |-> FALSE]
      ELSE [q |-> Rat(0, 1), b |-> [num |-> cpuct * ps.num, den |-> ps.den],
            fresh |-> TRUE]

\* u1 > u2.  With ns = 0 the square roots are 0 and 1e-4.  With ns >= 1,
\* Math.sqrt(ns + EPS) exceeds Math.sqrt(ns) by less than 1e-8, which
\* decides the comparison only when the two values are equal without it.
greater(u1, u2, ns) ==
  LET term(u) == IF u.fresh THEN u.b ELSE Rat(0, 1)
      d == ratSub(u1.q, u2.q)
      e == ratSub(term(u1), term(u2))
  IN  IF ns = 0
      THEN d.num * sqrtEPS.den * e.den + e.num * sqrtEPS.num * d.den > 0
      ELSE LET main == signSurd(d, ratSub(u1.b, u2.b), ns)
           IN  IF main # 0 THEN main > 0 ELSE e.num > 0

\* Variant: of the valid actions with the greatest u the last one is kept
\* (u >= curBest).
RECURSIVE selectFrom_lastOnTies(_, _, _, _)
selectFrom_lastOnTies(m, s, lo, hi) ==
  IF lo = hi THEN (IF m.Vs[s][lo] > 0 THEN lo ELSE -1)
  ELSE LET lower == selectFrom_lastOnTies(m, s, lo, (lo + hi) \div 2)
           upper == selectFrom_lastOnTies(m, s, (lo + hi) \div 2 + 1, hi)
       IN  IF upper = -1 THEN lower
           ELSE IF lower = -1 THEN upper
           ELSE IF greater(ucb(m, s, lower), ucb(m, s, upper), m.Ns[s]) THEN lower
           ELSE upper

\* search, selection: bestAct after the loop has gone over the actions lo to
\* hi (-1 when none of them is valid, curBest being -Infinity).  The loop
\* keeps the first of the valid actions with the greatest u; so does taking
\* the best of the upper half only when its u is greater than that of the
\* best of the lower half.
RECURSIVE selectFrom(_, _, _, _)
selectFrom(m, s, lo, hi) ==
  IF lo = hi THEN (IF m.Vs[s][lo] > 0 THEN lo ELSE -1)
  ELSE LET lower == selectFrom(m, s, lo, (lo + hi) \div 2)
           upper == selectFrom(m, s, (lo + hi) \div 2 + 1, hi)
       IN  IF upper = -1 THEN lower
           ELSE IF lower = -1 THEN upper
           ELSE IF greater(ucb(m, s, upper), ucb(m, s, lower), m.Ns[s]) THEN upper
           ELSE lower

\* Variant: Q of a visited action becomes the value backed up, not the mean.
backup_lastValue(m, s, a, ns, v) ==
  LET key == <<s, a>>
  IN  [m EXCEPT
         !.Qsa = put(m.Qsa, key, Rat(v, 1)),
         !.Nsa = IF key \in DOMAIN m.Qsa
                 THEN put(m.Nsa, key, m.Nsa[key] + 1)
                 ELSE put(m.Nsa, key, 1),
         !.Ns = put(m.Ns, s, ns + 1)]

\* Variant: the first visit of an action is not counted.
backup_firstVisitFree(m, s, a, ns, v) ==
  LET key == <<s, a>>
  IN  [m EXCEPT
         !.Qsa = IF key \in DOMAIN m.Qsa
                 THEN put(m.Qsa, key,
                          Rat(m.Nsa[key] * m.Qsa[key].num + v * m.Qsa[key].den,
                              m.Qsa[key].den * (m.Nsa[key] + 1)))
                 ELSE put(m.Qsa, key, Rat(v, 1)),
         !.Nsa = IF key \in DOMAIN m.Qsa
                 THEN put(m.Nsa, key, m.Nsa[key] + 1)
                 ELSE put(m.Nsa, key, 0),
         !.Ns = put(m.Ns, s, ns + 1)]

\* search, the update of Q and N after the recursion returned v
backup(m, s, a, ns, v) ==
  LET key == <<s, a>>
  IN  [m EXCEPT
         !.Qsa = IF key \in DOMAIN m.Qsa
                 THEN put(m.Qsa, key,
                          Rat(m.Nsa[key] * m.Qsa[key].num + v * m.Qsa[key].den,
                              m.Qsa[key].den * (m.Nsa[key] + 1)))
                 ELSE put(m.Qsa, key, Rat(v, 1)),
         !.Nsa = IF key \in DOMAIN m.Qsa
                 THEN put(m.Nsa, key, m.Nsa[key] + 1)
                 ELSE put(m.Nsa, key, 1),
         !.Ns = put(m.Ns, s, ns + 1)]

\* The Error of a nnet.predict call that fails.
ErrEvaluator == "EvaluatorError"

\* search(canonicalBoard, visited) on the tables m, prediction being what
\* nnet.predict does at the leaf (it answers a policy and a value, or
\* fails): the tables the call leaves, the value it returns, the way it
\* ended at its own node (end, and act, the action selected there), the
\* Error that ended it, and the visited set as the call leaves it.  Of the
\* calls nested in it the result records the keys nnet.predict was called
\* on (queried) and what it did (answers), the way the call nested deepest
\* ended at its node (deepest), the key the cycle guard met (guarded), the
\* number of calls nested in one another (depth) and, from
\* this node down, the node, the action, the next player, the value the
\* call below returned and the value used in the update (path).  s is the
\* key of canonicalBoard.
RECURSIVE search(_, _, _, _)

\* search: a call that ends at its own node
ending(m, v, end, error, visited) ==
  [m |-> m, v |-> v, end |-> end, act |-> -1, error |-> error,
   visited |-> visited, queried |-> << >>, answers |-> << >>, depth |-> 1,
   path |-> << >>, deepest |-> end, guarded |-> << >>]

\* search: the terminal status of s is computed when Es has not got it
withEnded(m, s, canonicalBoard) ==
  IF s \in DOMAIN m.Es THEN m
  ELSE [m EXCEPT !.Es = put(m.Es, s, checkGameEndedFromTensor(canonicalBoard))]

\* Variant: the entries of the leaf are stored before nnet.predict is
\* called, with the uniform policy.
expand_storedFirst(m, s, canonicalBoard, visited, prediction) ==
  [ending([m EXCEPT
             !.Ps = put(m.Ps, s,
                        maskedPolicy(IF prediction.fails
                                     THEN [a \in 0 .. (ACTION_SIZE - 1) |-> 1]
                                     ELSE prediction.policy,
                                     getValidMovesFromTensor(canonicalBoard))),
             !.Vs = put(m.Vs, s, getValidMovesFromTensor(canonicalBoard)),
             !.Ns = put(m.Ns, s, 0)],
          IF prediction.fails THEN 0 ELSE prediction.value,
          IF prediction.fails THEN "error" ELSE "expanded",
          IF prediction.fails THEN ErrEvaluator ELSE NoError,
          IF prediction.fails THEN visited ELSE visited \ {s})
     EXCEPT !.queried = <<s>>, !.answers = <<prediction>>]

\* search: the leaf s is expanded; when nnet.predict fails the call ends
\* there, before anything is stored
expand(m, s, canonicalBoard, visited, prediction) ==
  IF prediction.fails
  THEN [ending(m, 0, "error", ErrEvaluator, visited)
          EXCEPT !.queried = <<s>>, !.answers = <<prediction>>]
  ELSE [ending([m EXCEPT
                  !.Ps = put(m.Ps, s,
                             maskedPolicy(prediction.policy,
                                          getValidMovesFromTensor(canonicalBoard))),
                  !.Vs = put(m.Vs, s, getValidMovesFromTensor(canonicalBoard)),
                  !.Ns = put(m.Ns, s, 0)],
               prediction.value, "expanded", NoError, visited \ {s})
          EXCEPT !.queried = <<s>>, !.answers = <<prediction>>]

\* Variant: the node stays in the visited set after the update.
update_keepsVisited(s, bestAct, ns, nextPlayer, below) ==
  IF below.error # NoError
  THEN [below EXCEPT !.v = 0, !.end = "error", !.act = bestAct,
                     !.depth = below.depth + 1]
  ELSE [below EXCEPT
          !.m = backup(below.m, s, bestAct, ns,
                       IF nextPlayer = 1 THEN below.v ELSE 0 - below.v),
          !.v = IF nextPlayer = 1 THEN below.v ELSE 0 - below.v,
          !.end = "selected",
          !.act = bestAct,
          !.depth = below.depth + 1,
          !.path = << [s |-> s, a |-> bestAct, nextPlayer |-> nextPlayer,
                       below |-> below.v,
                       v |-> IF nextPlayer = 1 THEN below.v ELSE 0 - below.v] >>
                   \o below.path]

\* search: the recursive call below has returned; ns is the Ns of s read
\* before the call
update(s, bestAct, ns, nextPlayer, below) ==
  IF below.error # NoError
  THEN [below EXCEPT !.v = 0, !.end = "error", !.act = bestAct,
                     !.depth = below.depth + 1]
  ELSE [below EXCEPT
          !.m = backup(below.m, s, bestAct, ns,
                       IF nextPlayer = 1 THEN below.v ELSE 0 - below.v),
          !.v = IF nextPlayer = 1 THEN below.v ELSE 0 - below.v,
          !.end = "selected",
          !.act = bestAct,
          !.visited = below.visited \ {s},
          !.depth = below.depth + 1,
          !.path = << [s |-> s, a |-> bestAct, nextPlayer |-> nextPlayer,
                       below |-> below.v,
                       v |-> IF nextPlayer = 1 THEN below.v ELSE 0 - below.v] >>
                   \o below.path]

\* search: bestAct has been applied, with the result next
descend(m, s, visited, prediction, bestAct, next) ==
  IF next.error # NoError
  THEN [ending(m, 0, "error", next.error, visited) EXCEPT !.act = bestAct]
  ELSE update(s, bestAct, m.Ns[s], next.nextPlayer,
              search(m, array(getCanonicalForm(next.tensor, next.nextPlayer)),
                     visited, prediction))

\* search: the internal node s, bestAct being the action selected
select(m, s, canonicalBoard, visited, prediction, bestAct) ==
  IF bestAct = -1
  THEN ending(m, 0, "noAction", NoError, visited \ {s})
  ELSE descend(m, s, visited, prediction, bestAct,
               applyActionToTensor(canonicalBoard, bestAct))

\* search: after the cycle guard and visited.add(s), on the tables with the
\* status of s
visit(m, s, canonicalBoard, visited, prediction) ==
  IF m.Es[s] # 0
  THEN ending(m, m.Es[s], "terminal", NoError, visited \ {s})
  ELSE IF s \notin DOMAIN m.Ps
  THEN expand(m, s, canonicalBoard, visited, prediction)
  ELSE select(m, s, canonicalBoard, visited, prediction,
              selectFrom(m, s, 0, ACTION_SIZE - 1))

enter(m, s, canonicalBoard, visited, prediction) ==
  IF s \in visited
  THEN [ending(m, 0, "cycle", NoError, visited) EXCEPT !.guarded = <<s>>]
  ELSE visit(withEnded(m, s, canonicalBoard), s, canonicalBoard,
             visited \cup {s}, prediction)

search(m, canonicalBoard, visited, prediction) ==
  enter(m, tensorToString(canonicalBoard), canonicalBoard, visited, prediction)

\* Variant: the count of action a is read at the key of action a + 1.
counts_nextKey(m, s) ==
  array([a \in 0 .. (ACTION_SIZE - 1) |->
           IF <<s, a + 1>> \in DOMAIN m.Nsa THEN m.Nsa[<<s, a + 1>>] ELSE 0])

\* getActionProb: counts[a]
counts(m, s) ==
  array([a \in 0 .. (ACTION_SIZE - 1) |->
           IF <<s, a>> \in DOMAIN m.Nsa THEN m.Nsa[<<s, a>>] ELSE 0])

\* getActionProb, temp = 0: the actions of bestActions after the loop
bestActions(count) ==
  {a \in DOMAIN count : count[a] > 0 /\ \A a2 \in DOMAIN count : count[a2] <= count[a]}

\* Variant: for temp 1 the counts are returned as they are.
actionProbs_notDivided(count, temperature, bestA) ==
  IF temperature = 0
  THEN [a \in DOMAIN count |->
          IF bestActions(count) # {} /\ a = bestA THEN Rat(1, 1) ELSE Rat(0, 1)]
  ELSE [a \in DOMAIN count |-> Rat(count[a], 1)]

\* getActionProb: probs for temp 0, bestA being the action drawn from
\* bestActions (any action when bestActions is empty), and for temp 1
actionProbs(count, temperature, bestA) ==
  IF temperature = 0
  THEN [a \in DOMAIN count |->
          IF bestActions(count) # {} /\ a = bestA THEN Rat(1, 1) ELSE Rat(0, 1)]
  ELSE LET total == sumOver(count, 0, ACTION_SIZE - 1)
       IN  [a \in DOMAIN count |->
              IF total > 0 THEN Rat(count[a], total) ELSE Rat(count[a], 1)]

(***************************************************************************)
(* The calls made on the GameState.  A game is played from the             *)
(* constructor: along one of the Openings (fixed sequences of calls), and, *)
(* from any point of an opening, by up to MaxFree arbitrary calls.         *)
(***************************************************************************)
MaxFree == 1

Place(pieceType, row, col) ==
  [op |-> "placePiece", pieceType |-> pieceType, position |-> <<row, col>>,
   choice |-> << >>]

Choose(choice) ==
  [op |-> "chooseGraduation", pieceType |-> Null, position |-> <<0, 0>>,
   choice |-> choice]

\* Both players graduate three kittens (orange in row 0, gray in row 5).
BothGraduate ==
  << Place("ok", 0, 0), Place("gk", 5, 0), Place("ok", 0, 2), Place("gk", 0, 3),
     Place("ok", 0, 2), Place("gk", 5, 2), Place("ok", 5, 3), Place("gk", 5, 2) >>

\* Orange completes a line of three cats in row 2 and the same placement
\* boops a gray cat into a line of three gray cats in column 4.
DoubleLine ==
  BothGraduate \o
  << Place("oc", 2, 0), Place("gc", 1, 4), Place("oc", 2, 2), Place("gc", 3, 4),
     Place("ok", 0, 5), Place("gk", 5, 0), Place("ok", 4, 5), Place("gc", 2, 3),
     Place("oc", 2, 2) >>

\* Gray completes a line of three cats from row 1 down and the same
\* placement boops an orange cat into a line of three orange cats that
\* starts in row 3.
PlacerLineFirst ==
  BothGraduate \o
  << Place("oc", 4, 2), Place("gc", 2, 2), Place("oc", 4, 3), Place("gc", 3, 4),
     Place("oc", 2, 1), Place("gc", 1, 2) >>

\* Orange alone completes a line of three cats.
OrangeLine ==
  BothGraduate \o
  << Place("oc", 2, 1), Place("gk", 5, 5), Place("ok", 2, 0), Place("gk", 4, 4),
     Place("oc", 2, 3), Place("gk", 5, 5), Place("ok", 2, 4), Place("gk", 5, 3),
     Place("oc", 2, 2) >>

\* Orange lines up cat, cat, kitten, cat in row 2: two overlapping options,
\* and chooses the left one, listed right to left.
MixedChoice ==
  BothGraduate \o
  << Place("oc", 2, 0), Place("gk", 5, 5), Place("oc", 2, 2), Place("gk", 4, 4),
     Place("oc", 2, 3), Place("gk", 5, 5), Place("ok", 2, 2),
     Choose(<< <<2, 2>>, <<2, 1>>, <<2, 0>> >>) >>

\* Orange puts all 8 kittens on the board, none adjacent to another, then
\* graduates them one at a time and puts each cat back on the same square,
\* until 8 orange cats are on the board.
EightCats ==
  << Place("ok", 4, 2), Place("gk", 5, 5), Place("ok", 4, 0), Place("gk", 5, 4),
     Place("ok", 2, 0), Place("gk", 5, 5), Place("ok", 2, 2), Place("gk", 5, 4),
     Place("ok", 2, 4), Place("gk", 5, 5), Place("ok", 0, 0), Place("gk", 5, 4),
     Place("ok", 0, 2), Place("gk", 5, 5), Place("ok", 0, 4),
     Choose(<< <<0, 4>> >>), Place("gk", 5, 4), Place("oc", 0, 4),
     Choose(<< <<0, 2>> >>), Place("gk", 5, 5), Place("oc", 0, 2),
     Choose(<< <<0, 0>> >>), Place("gk", 5, 4), Place("oc", 0, 0),
     Choose(<< <<2, 4>> >>), Place("gk", 5, 5), Place("oc", 2, 4),
     Choose(<< <<2, 2>> >>), Place("gk", 5, 4), Place("oc", 2, 2),
     Choose(<< <<2, 0>> >>), Place("gk", 5, 5), Place("oc", 2, 0),
     Choose(<< <<4, 0>> >>), Place("gk", 5, 4), Place("oc", 4, 0),
     Choose(<< <<4, 2>> >>), Place("gk", 5, 5), Place("oc", 4, 2) >>

\* An orange cat placed at (1,1) boops a gray kitten off the board, another
\* one step down, and is blocked on its right by the cat and kitten there.
ThreeCases ==
  BothGraduate \o
  << Place("oc", 1, 2), Place("gk", 0, 1), Place("ok", 5, 5), Place("gk", 1, 3),
     Place("ok", 3, 5), Place("gk", 2, 1), Place("oc", 1, 1) >>

\* As DoubleLine, with orange's first cat out of row 2: orange's last
\* placement lines up the gray cats only.
GrayLine ==
  BothGraduate \o
  << Place("oc", 4, 0), Place("gc", 1, 4), Place("oc", 2, 2), Place("gc", 3, 4),
     Place("ok", 0, 5), Place("gk", 5, 0), Place("ok", 4, 5), Place("gc", 2, 3),
     Place("oc", 2, 2) >>

\* Gray lines up kittens in column 2, on the rising diagonal through (2,2)
\* and on the falling diagonal through (4,2): three options, vertical,
\* diagonal up and diagonal down, and chooses the diagonal down, listed from
\* its lower end.
GrayChoice ==
  << Place("ok", 2, 3), Place("gk", 4, 4), Place("ok", 5, 5), Place("gk", 0, 2),
     Place("ok", 1, 0), Place("gk", 4, 4), Place("ok", 3, 5), Place("gk", 1, 3),
     Place("ok", 0, 4), Place("gk", 1, 2), Place("ok", 0, 3), Place("gk", 1, 3),
     Place("ok", 2, 0), Place("gk", 3, 1),
     Choose(<< <<5, 3>>, <<4, 2>>, <<3, 1>> >>) >>

Openings ==
  << DoubleLine, OrangeLine, MixedChoice, EightCats, ThreeCases, GrayLine,
     GrayChoice, PlacerLineFirst >>

\* The squares of the placements made off the openings: the top left quarter
\* of the board.  Every square of the board is the image of one of these
\* under a rotation or reflection of the board: the quarter holds a corner,
\* edge squares, squares one step from an edge and a centre square.
FreeSquares == (0 .. 2) \X (0 .. 2)

VARIABLES
  board, currentTurn, availablePieces, graduatedCount, gameOver, winner,
  stateMode, placeableSquares, placeablePieces, graduationChoices,
  lastCall,   \* the last call made on the object
  error,      \* the Error that call threw, NoError if it returned
  effects,    \* what that call did on the way: the board and reserves it
              \* found, the board and reserves after its boop step, the
              \* graduation options it enumerated and the option it performed
  opening,    \* the openings that start with the calls made so far
  played,     \* the number of those calls
  free,       \* the number of calls made off the openings
  codecCall,  \* the last call of a function of tensor.ts on action indices:
              \* its arguments, what it returned and the Error it threw
  Qsa, Nsa, Ns, Ps, Es, Vs,  \* the maps of the MCTS object
  nnet,       \* the evaluator the MCTS object was constructed with
  pc,         \* where the getActionProb call on the state is: not made
              \* ("idle"), in its loop of simulations ("search"), returned
              \* ("done"), ended by the Error of a search call ("failed")
  simulation, \* the number of search calls of the loop that have returned
  ends,       \* for each of them, how it ended at the root
  temp,       \* the temp argument of the call
  probs,      \* what the call returned
  remaining,  \* boopPieces, run in any order of the directions: the indices
              \* of DIRECTIONS the loop has not been through
  heap,       \* the objects and arrays made so far, a reference being an index
  origin,     \* the reference of the GameState that clone is called on
  derived,    \* the reference of the GameState made from it, 0 before
  isAnalyzing, abortAnalysis,  \* the two flags of the analysis worker
  waiting,    \* the 'analyze' handlers that wait for the analysis to stop:
              \* the waitCount of each
  loops,      \* the runAnalysis calls made so far: where each one is
  received,   \* the number of messages the worker has received
  stopped,    \* a 'stop' has been received and no 'analyze' since
  gameHistory,  \* useBoopGame: the states saved for undo, the hook's game
                \* state being the state of the game above
  searches    \* for each search call the loop has made, the one that threw
              \* included: what search says of it, and the maps it found

gameVars ==
  << board, currentTurn, availablePieces, graduatedCount, gameOver, winner,
     stateMode, placeableSquares, placeablePieces, graduationChoices >>

codecVars == << codecCall >>

mctsVars ==
  << Qsa, Nsa, Ns, Ps, Es, Vs, nnet, pc, simulation, ends, temp, probs,
     searches >>

boopVars == << remaining >>

cloneVars == << heap, origin, derived >>

workerVars ==
  << isAnalyzing, abortAnalysis, waiting, loops, received, stopped >>

hookVars == << gameHistory >>

vars ==
  << gameVars, lastCall, error, effects, opening, played, free, codecVars,
     mctsVars, boopVars, cloneVars, workerVars, hookVars >>

State ==
  [board |-> board, currentTurn |-> currentTurn,
   availablePieces |-> availablePieces, graduatedCount |-> graduatedCount,
   gameOver |-> gameOver, winner |-> winner, stateMode |-> stateMode,
   placeableSquares |-> placeableSquares, placeablePieces |-> placeablePieces,
   graduationChoices |-> graduationChoices]

SetState(s) ==
  /\ board' = s.board
  /\ currentTurn' = s.currentTurn
  /\ availablePieces' = s.availablePieces
  /\ graduatedCount' = s.graduatedCount
  /\ gameOver' = s.gameOver
  /\ winner' = s.winner
  /\ stateMode' = s.stateMode
  /\ placeableSquares' = s.placeableSquares
  /\ placeablePieces' = s.placeablePieces
  /\ graduationChoices' = s.graduationChoices

\* No function of tensor.ts has been called.
NoCodecCall ==
  [op |-> "none", action |-> 0, moveType |-> 0, position |-> <<0, 0>>,
   error |-> NoError]

\* useState([]): the history of the hook as it is mounted.
NoHook == gameHistory = << >>

\* The analysis worker as its module is loaded, no message received.
NoWorker ==
  /\ isAnalyzing = FALSE
  /\ abortAnalysis = FALSE
  /\ waiting = << >>
  /\ loops = << >>
  /\ received = 0
  /\ stopped = FALSE

\* No GameState object has been made.
NoClone ==
  /\ heap = << >>
  /\ origin = 0
  /\ derived = 0

\* An MCTS object as constructed, and no getActionProb call made on it.
NoSearch ==
  /\ Qsa = emptyTables.Qsa
  /\ Nsa = emptyTables.Nsa
  /\ Ns = emptyTables.Ns
  /\ Ps = emptyTables.Ps
  /\ Es = emptyTables.Es
  /\ Vs = emptyTables.Vs
  /\ pc = "idle"
  /\ simulation = 0
  /\ ends = << >>
  /\ temp = 1
  /\ probs = << >>
  /\ searches = << >>

NoEffects(s) ==
  [boardBefore |-> s.board, piecesBefore |-> s.availablePieces,
   board |-> s.board, availablePieces |-> s.availablePieces,
   options |-> << >>, graduated |-> << >>]

Init ==
  /\ board = newGameState.board
  /\ currentTurn = newGameState.currentTurn
  /\ availablePieces = newGameState.availablePieces
  /\ graduatedCount = newGameState.graduatedCount
  /\ gameOver = newGameState.gameOver
  /\ winner = newGameState.winner
  /\ stateMode = newGameState.stateMode
  /\ placeableSquares = newGameState.placeableSquares
  /\ placeablePieces = newGameState.placeablePieces
  /\ graduationChoices = newGameState.graduationChoices
  /\ lastCall = [op |-> "constructor", pieceType |-> Null,
                 position |-> <<0, 0>>, choice |-> << >>]
  /\ error = NoError
  /\ effects = NoEffects(newGameState)
  /\ opening = 1 .. Len(Openings)
  /\ played = 0
  /\ free = 0
  /\ codecCall = NoCodecCall
  /\ nnet = "none"
  /\ NoSearch
  /\ remaining = {}
  /\ NoClone
  /\ NoWorker
  /\ NoHook


\* The calls that continue an opening the calls made so far are the start of.
Continuing(call) ==
  {o \in opening : played < Len(Openings[o]) /\ Openings[o][played + 1] = call}

Scripted(call) == Continuing(call) # {}

Allowed(call) ==
  \/ Scripted(call)
  \/ free < MaxFree /\ (call.op = "placePiece" => call.position \in FreeSquares)

Budget(call) ==
  IF Scripted(call)
  THEN /\ played' = played + 1
       /\ opening' = Continuing(call)
       /\ free' = free
  ELSE /\ free' = free + 1
       /\ opening' = {}
       /\ played' = 0

\* What a placePiece call that passed its checks did on the way.
placeEffects(s, pieceType, position) ==
  LET booped == placeAndBoop(s, pieceType, position)
      opts == IF checkForWin(booped).gameOver THEN << >>
              ELSE calculateGraduationChoices(booped).graduationChoices
  IN  [boardBefore |-> s.board, piecesBefore |-> s.availablePieces,
       board |-> booped.board, availablePieces |-> booped.availablePieces,
       options |-> opts,
       graduated |-> IF Len(opts) = 1 THEN opts[1] ELSE << >>]

PlacePiece(pieceType, position) ==
  LET call == Place(pieceType, position[1], position[2])
      r == placePiece(State, pieceType, position)
  IN  /\ Allowed(call)
      /\ SetState(r.state)
      /\ lastCall' = call
      /\ error' = r.error
      /\ effects' = IF r.error = NoError
                    THEN placeEffects(State, pieceType, position)
                    ELSE NoEffects(State)
      /\ Budget(call)
      /\ UNCHANGED << codecVars, mctsVars, boopVars, cloneVars, workerVars, hookVars >>

ChooseGraduation(choice) ==
  LET call == Choose(choice)
      r == chooseGraduation(State, choice)
  IN  /\ Allowed(call)
      /\ SetState(r.state)
      /\ lastCall' = call
      /\ error' = r.error
      /\ effects' = IF r.error = NoError
                    THEN [NoEffects(State) EXCEPT
                            !.options = graduationChoices,
                            !.graduated = graduationChoices[findChoice(State, choice)]]
                    ELSE NoEffects(State)
      /\ Budget(call)
      /\ UNCHANGED << codecVars, mctsVars, boopVars, cloneVars, workerVars, hookVars >>

\* The choices a caller may hand to chooseGraduation: every ordering of every
\* enumerated option, each option with a position dropped or repeated, and a
\* few fixed choices.
Orderings(c) ==
  {[i \in 1 .. Len(c) |-> c[f[i]]] :
     f \in {g \in [1 .. Len(c) -> 1 .. Len(c)] :
              \A i, j \in 1 .. Len(c) : i # j => g[i] # g[j]}}

ProbeChoices ==
  { << >>, << <<2, 2>> >>, << <<0, 0>>, <<0, 1>>, <<0, 2>> >>,
    << <<2, 1>>, <<2, 2>>, <<2, 3>> >> }

ChoiceInputs ==
  UNION {Orderings(graduationChoices[i]) : i \in 1 .. Len(graduationChoices)}
  \cup {Tail(graduationChoices[i]) : i \in 1 .. Len(graduationChoices)}
  \cup {<<graduationChoices[i][1]>> \o graduationChoices[i] :
          i \in 1 .. Len(graduationChoices)}
  \cup {[graduationChoices[i] EXCEPT ![Len(graduationChoices[i])] =
           graduationChoices[i][1]] : i \in 1 .. Len(graduationChoices)}
  \cup ProbeChoices

Next ==
  \/ \E pieceType \in PieceType, position \in Position :
       PlacePiece(pieceType, position)
  \/ \E choice \in ChoiceInputs : ChooseGraduation(choice)

Spec == Init /\ [][Next]_vars

TypeOK ==
  /\ board \in [Position -> PieceType \cup {Null}]
  /\ currentTurn \in Player
  /\ availablePieces \in [PieceType -> Int]
  /\ graduatedCount \in [{"oc", "gc"} -> Int]
  /\ gameOver \in BOOLEAN
  /\ winner \in Player \cup {Null}
  /\ stateMode \in {"waiting_for_placement", "waiting_for_graduation_choice"}
  /\ free \in 0 .. MaxFree

(***************************************************************************)
(* Vocabulary of the properties, stated on boards and not through the      *)
(* operators of the methods.                                               *)
(***************************************************************************)
Kittens == {"ok", "gk"}
Cats == {"oc", "gc"}
OwnerOf(tag) == IF tag \in {"ok", "oc"} THEN "orange" ELSE "gray"
KittenOf(owner) == IF owner = "orange" THEN "ok" ELSE "gk"
CatOf(owner) == IF owner = "orange" THEN "oc" ELSE "gc"
Other(owner) == IF owner = "orange" THEN "gray" ELSE "orange"

Around == {d \in {-1, 0, 1} \X {-1, 0, 1} : d # <<0, 0>>}
Shift(pos, d, i) == << pos[1] + i * d[1], pos[2] + i * d[2] >>
OnBoard(pos) == pos \in Position
Count(b, tag) == Cardinality({pos \in Position : b[pos] = tag})
Range(seq) == {seq[i] : i \in 1 .. Len(seq)}

\* The rule of who boops whom: cats boop anything, kittens only kittens.
MayBoop(placed, other) == placed \in Cats \/ other \in Kittens

\* What the rules say happens to the neighbour in direction d of a piece
\* "placed" put on square pos of board b (b already holds the placed piece).
BoopCase(b, pos, placed, d) ==
  LET n == Shift(pos, d, 1)
      l == Shift(pos, d, 2)
  IN  IF ~OnBoard(n) THEN "none"
      ELSE IF b[n] = Null \/ ~MayBoop(placed, b[n]) THEN "none"
      ELSE IF ~OnBoard(l) THEN "off"
      ELSE IF b[l] = Null THEN "move"
      ELSE "blocked"

\* The step is a placePiece call that returned normally.
PlacedStep == lastCall'.op = "placePiece" /\ error' = NoError
\* The last call was one.
Placed == lastCall.op = "placePiece" /\ error = NoError
\* The board that call found, with the placed piece on it.
WithPiece(b, call) == [b EXCEPT ![call.position] = call.pieceType]

(***************************************************************************)
(* C1  Piece conservation: in every reachable state, for each owner, the   *)
(* kittens in reserve plus the kittens on the board plus graduatedCount    *)
(* are 8, the owner's pieces in reserve and on the board are 8 in all, and *)
(* no reserve count is negative.                                           *)
(***************************************************************************)
C1_PieceConservation ==
  /\ \A owner \in Player :
       /\ availablePieces[KittenOf(owner)] + Count(board, KittenOf(owner))
            + graduatedCount[CatOf(owner)] = 8
       /\ availablePieces[KittenOf(owner)] + availablePieces[CatOf(owner)]
            + Count(board, KittenOf(owner)) + Count(board, CatOf(owner)) = 8
  /\ \A tag \in PieceType : availablePieces[tag] >= 0

\* A placement has booped a piece off the board after a graduation.
C1_Witness ==
  /\ Placed
  /\ \E tag \in PieceType : effects.availablePieces[tag] > effects.piecesBefore[tag]
  /\ graduatedCount["oc"] > 0
  /\ Count(board, "oc") > 0

(***************************************************************************)
(* C2  placePiece throws and leaves every field of the state as it was     *)
(* when the game is over, when the mode is waiting_for_graduation_choice,  *)
(* when the piece is not the mover's, when the square is occupied or when  *)
(* the mover has none of that piece in reserve.                            *)
(***************************************************************************)
C2_PlaceRejected ==
  [][ ( /\ lastCall'.op = "placePiece"
        /\ \/ gameOver
           \/ stateMode = "waiting_for_graduation_choice"
           \/ OwnerOf(lastCall'.pieceType) # currentTurn
           \/ board[lastCall'.position] # Null
           \/ availablePieces[lastCall'.pieceType] = 0 )
      => (error' # NoError /\ UNCHANGED gameVars) ]_vars

\* A placement of a piece the mover has none of was rejected.
C2_Witness ==
  /\ lastCall.op = "placePiece"
  /\ error = ErrNoPieces
  /\ availablePieces[lastCall.pieceType] = 0
  /\ board[lastCall.position] = Null

(***************************************************************************)
(* C3  chooseGraduation throws and leaves the state as it was when the     *)
(* mode is not waiting_for_graduation_choice or when the positions of the  *)
(* choice are not, as a set, those of an enumerated option; a choice that  *)
(* lists the positions of an enumerated option in any order is accepted.   *)
(***************************************************************************)
C3_ChooseChecked ==
  [][ lastCall'.op = "chooseGraduation" =>
        LET choice == lastCall'.choice
            options == Range(graduationChoices)
        IN  /\ ( \/ stateMode # "waiting_for_graduation_choice"
                 \/ \A o \in options : Range(o) # Range(choice) )
               => (error' # NoError /\ UNCHANGED gameVars)
            /\ ( /\ stateMode = "waiting_for_graduation_choice"
                 /\ \E o \in options :
                      Len(o) = Len(choice) /\ Range(o) = Range(choice) )
               => error' = NoError ]_vars

\* A choice of three positions, listed in another order than the option
\* enumerated, was accepted.
C3_Witness ==
  /\ lastCall.op = "chooseGraduation"
  /\ error = NoError
  /\ Len(lastCall.choice) = 3
  /\ lastCall.choice # effects.graduated
  /\ Range(lastCall.choice) = Range(effects.graduated)

(***************************************************************************)
(* C4  Boop outcome: each neighbour the placed piece may boop moves to the *)
(* square one step further when that square is on the board and empty,     *)
(* stays when it is on the board and occupied, and leaves the board when   *)
(* it is off the board, its tag's reserve rising by exactly 1.             *)
(***************************************************************************)
C4_BoopOutcome ==
  [][ PlacedStep =>
        LET pos == lastCall'.position
            placed == lastCall'.pieceType
            b == WithPiece(board, lastCall')
            after == effects'.board
        IN  /\ \A d \in Around :
                 LET n == Shift(pos, d, 1)
                     l == Shift(pos, d, 2)
                     case == BoopCase(b, pos, placed, d)
                 IN  /\ case = "move" => (after[l] = b[n] /\ after[n] = Null)
                     /\ case = "blocked" => (after[n] = b[n] /\ after[l] = b[l])
                     /\ case = "off" => after[n] = Null
            /\ \A tag \in PieceType :
                 effects'.availablePieces[tag] =
                   availablePieces[tag] - (IF tag = placed THEN 1 ELSE 0)
                   + Cardinality({d \in Around :
                                    /\ BoopCase(b, pos, placed, d) = "off"
                                    /\ b[Shift(pos, d, 1)] = tag}) ]_vars

\* One placement has moved a neighbour, left another where it was and booped
\* a third off the board.
C4_Witness ==
  /\ Placed
  /\ \A case \in {"move", "blocked", "off"} :
       \E d \in Around :
         BoopCase(WithPiece(effects.boardBefore, lastCall), lastCall.position,
                  lastCall.pieceType, d) = case

C6_LineOfTwoStays ==
  [][ PlacedStep =>
        \A d \in Around :
          LET n == Shift(lastCall'.position, d, 1)
              l == Shift(lastCall'.position, d, 2)
          IN  (OnBoard(l) /\ board[n] # Null /\ board[l] # Null)
                => (effects'.board[n] = board[n] /\ effects'.board[l] = board[l]) ]_vars

\* A piece was placed at the end of a line of two whose nearer piece it may
\* boop.
C6_Witness ==
  /\ Placed
  /\ \E d \in Around :
       BoopCase(WithPiece(effects.boardBefore, lastCall), lastCall.position,
                lastCall.pieceType, d) = "blocked"


\* Three cats of one tag on three squares in a row, a column or a diagonal.
Lines == {<<0, 1>>, <<1, 0>>, <<1, 1>>, <<1, -1>>}

LineAt(b, tag, pos, d) ==
  /\ OnBoard(Shift(pos, d, 2))
  /\ \A i \in 0 .. 2 : b[Shift(pos, d, i)] = tag

HasLine(b, tag) == \E pos \in Position, d \in Lines : LineAt(b, tag, pos, d)

WinCondition(b, tag) == HasLine(b, tag) \/ Count(b, tag) = 8

\* The tag of the first cat, row by row and left to right, from which a line
\* of three runs right, down or down a diagonal; without a line, the tag
\* with 8 cats on the board.
WinningTag(b) ==
  LET starts == {pos \in Position :
                   \E tag \in Cats, d \in Lines : LineAt(b, tag, pos, d)}
      first == CHOOSE pos \in starts :
                 \A q \in starts :
                   pos[1] < q[1] \/ (pos[1] = q[1] /\ pos[2] <= q[2])
  IN  IF starts # {} THEN b[first]
      ELSE IF Count(b, "oc") = 8 THEN "oc" ELSE "gc"

\* The step has graduated nothing: the state is as the boops left it.
NoGraduationStep ==
  /\ board' = effects'.board
  /\ availablePieces' = effects'.availablePieces
  /\ graduatedCount' = graduatedCount

\* A finished game rejects the call of the step.
RejectedWhenOver == gameOver => (error' # NoError /\ UNCHANGED gameVars)

(***************************************************************************)
(* C7 as stated: whenever the board after the boops of a placement holds   *)
(* three cats of one tag in a line, or 8 cats of one tag, placePiece sets  *)
(* the winner to that tag's owner and graduates nothing, and every later   *)
(* call is rejected.                                                       *)
(***************************************************************************)
C7_Original ==
  [][ /\ PlacedStep =>
           \A tag \in Cats :
             WinCondition(effects'.board, tag)
               => (gameOver' /\ winner' = OwnerOf(tag) /\ NoGraduationStep)
      /\ RejectedWhenOver ]_vars

(***************************************************************************)
(* C7 as amended: whenever the board after the boops of a placement holds  *)
(* three cats of one tag in a line, or 8 cats of one tag, placePiece ends  *)
(* the game and graduates nothing, and every later call is rejected; the   *)
(* winner is the owner of the tag of the first line met row by row and     *)
(* left to right (a line before 8 cats), which is that tag's owner         *)
(* whenever one tag alone satisfies a win condition.                       *)
(***************************************************************************)
C7_Win ==
  [][ /\ ( /\ PlacedStep
           /\ \E tag \in Cats : WinCondition(effects'.board, tag) )
         => /\ gameOver'
            /\ NoGraduationStep
            /\ winner' = OwnerOf(WinningTag(effects'.board))
            /\ \A tag \in Cats :
                 ( /\ WinCondition(effects'.board, tag)
                   /\ \A other \in Cats \ {tag} :
                        ~WinCondition(effects'.board, other) )
                 => winner' = OwnerOf(tag)
      /\ RejectedWhenOver ]_vars

\* A placement has left a line of three orange cats and a line of three
\* gray cats on the board.
C7_Witness ==
  /\ Placed
  /\ gameOver
  /\ HasLine(board, "oc")
  /\ HasLine(board, "gc")

(***************************************************************************)
(* C8  The result is set at most once: gameOver becomes true only in a     *)
(* placePiece whose board after the boops satisfies a win condition, and   *)
(* from then on gameOver stays true and the winner, the board, the         *)
(* reserves, the turn and the mode never change.                           *)
(***************************************************************************)
C8_ResultSetOnce ==
  [][ /\ (~gameOver /\ gameOver')
         => /\ PlacedStep
            /\ \E tag \in Cats : WinCondition(effects'.board, tag)
            /\ winner' \in Player
      /\ gameOver
         => /\ gameOver'
            /\ UNCHANGED << winner, board, availablePieces, currentTurn,
                            stateMode >> ]_vars

\* A call was made on a finished game.
C8_Witness ==
  /\ gameOver
  /\ winner \in Player
  /\ error \in {ErrGameOver, ErrNotWaitingForGraduation}

(***************************************************************************)
(* C9  Resolution after a placement that does not win: with no graduation  *)
(* option the turn passes; with exactly one it is performed and the turn   *)
(* passes; with two or more the mode becomes waiting_for_graduation_choice,*)
(* nothing is graduated and the turn does not pass until chooseGraduation  *)
(* succeeds.                                                               *)
(***************************************************************************)
C9_Resolution ==
  [][ /\ (PlacedStep /\ ~gameOver')
         => LET n == Len(effects'.options)
            IN  /\ n = 0 =>
                     /\ currentTurn' = Other(currentTurn)
                     /\ stateMode' = "waiting_for_placement"
                     /\ NoGraduationStep
                /\ n = 1 =>
                     /\ currentTurn' = Other(currentTurn)
                     /\ stateMode' = "waiting_for_placement"
                     /\ \A pos \in Range(effects'.options[1]) :
                          effects'.board[pos] # Null /\ board'[pos] = Null
                /\ n >= 2 =>
                     /\ currentTurn' = currentTurn
                     /\ stateMode' = "waiting_for_graduation_choice"
                     /\ graduationChoices' = effects'.options
                     /\ NoGraduationStep
      /\ stateMode = "waiting_for_graduation_choice"
         => \/ /\ lastCall'.op = "chooseGraduation"
               /\ error' = NoError
               /\ currentTurn' = Other(currentTurn)
            \/ /\ error' # NoError
               /\ currentTurn' = currentTurn
               /\ stateMode' = "waiting_for_graduation_choice"
               /\ UNCHANGED << board, availablePieces, graduatedCount >> ]_vars

\* A placement has found two or more options and waits for the choice.
C9_Witness ==
  /\ Placed
  /\ ~gameOver
  /\ Len(effects.options) >= 2
  /\ stateMode = "waiting_for_graduation_choice"
  /\ currentTurn = OwnerOf(lastCall.pieceType)

(***************************************************************************)
(* C10  Graduation effect: after a graduation, performed by placePiece on  *)
(* its single option or chosen, every position of the option is empty; for *)
(* each kitten removed the owner's cat reserve and graduatedCount rise by  *)
(* 1 and the kitten reserve is unchanged; for each cat removed the cat     *)
(* reserve rises by 1 and graduatedCount is unchanged; no other square and *)
(* no count of the opponent changes; the turn switches and the mode is     *)
(* waiting_for_placement.                                                  *)
(***************************************************************************)
C10_GraduationEffect ==
  [][ ( /\ error' = NoError
        /\ \/ lastCall'.op = "chooseGraduation"
           \/ (lastCall'.op = "placePiece" /\ ~gameOver'
               /\ Len(effects'.options) = 1) )
      => LET squares == IF lastCall'.op = "chooseGraduation"
                        THEN Range(lastCall'.choice)
                        ELSE Range(effects'.options[1])
             b == effects'.board
             pool == effects'.availablePieces
             mover == currentTurn
             kittens == Cardinality({pos \in squares : b[pos] \in Kittens})
             cats == Cardinality({pos \in squares : b[pos] \in Cats})
         IN  /\ \A pos \in squares : board'[pos] = Null
             /\ \A pos \in Position \ squares : board'[pos] = b[pos]
             /\ kittens + cats = Cardinality(squares)
             /\ availablePieces'[CatOf(mover)] = pool[CatOf(mover)] + kittens + cats
             /\ availablePieces'[KittenOf(mover)] = pool[KittenOf(mover)]
             /\ graduatedCount'[CatOf(mover)] = graduatedCount[CatOf(mover)] + kittens
             /\ availablePieces'[CatOf(Other(mover))] = pool[CatOf(Other(mover))]
             /\ availablePieces'[KittenOf(Other(mover))] = pool[KittenOf(Other(mover))]
             /\ graduatedCount'[CatOf(Other(mover))] = graduatedCount[CatOf(Other(mover))]
             /\ currentTurn' = Other(mover)
             /\ stateMode' = "waiting_for_placement" ]_vars

\* An option holding a kitten and a cat was graduated.
C10_Witness ==
  /\ error = NoError
  /\ \E p1, p2 \in Range(effects.graduated) :
       effects.board[p1] \in Kittens /\ effects.board[p2] \in Cats
  /\ \A pos \in Range(effects.graduated) : board[pos] = Null

\* The owner's pieces, kittens and cats.
TagsOf(owner) == {KittenOf(owner), CatOf(owner)}

\* The windows of three squares in a row, a column or a diagonal of board b
\* whose three squares all hold pieces of the owner.
WindowsOf(b, owner) ==
  {{Shift(pos, d, i) : i \in 0 .. 2} :
     <<pos, d>> \in {pd \in Position \X Lines :
                       /\ OnBoard(Shift(pd[1], pd[2], 2))
                       /\ \A i \in 0 .. 2 :
                            b[Shift(pd[1], pd[2], i)] \in TagsOf(owner)}}

\* One square for each of the owner's pieces, when exactly 8 are on board b.
SinglesOf(b, owner) ==
  LET squares == {pos \in Position : b[pos] \in TagsOf(owner)}
  IN  IF Cardinality(squares) = 8 THEN {{pos} : pos \in squares} ELSE {}

(***************************************************************************)
(* C11  Graduation discovery: the options enumerated after a placement     *)
(* that does not win are, as sets of squares, exactly the windows of three *)
(* squares in a line all holding pieces of the mover, plus, if and only if *)
(* exactly 8 of the mover's pieces are on the board, one single square for *)
(* each of them; no option is listed twice and none repeats a square.      *)
(***************************************************************************)
C11_GraduationDiscovery ==
  [][ (PlacedStep /\ ~gameOver') =>
        LET options == effects'.options
            b == effects'.board
            mover == currentTurn
        IN  /\ {Range(options[i]) : i \in 1 .. Len(options)}
                 = WindowsOf(b, mover) \cup SinglesOf(b, mover)
            /\ \A i, j \in 1 .. Len(options) :
                 i # j => Range(options[i]) # Range(options[j])
            /\ \A i \in 1 .. Len(options) :
                 Cardinality(Range(options[i])) = Len(options[i]) ]_vars

\* A placement has made four of the mover's pieces in a row, kittens and
\* cats: the two overlapping windows are the options.
C11_Witness ==
  /\ Placed
  /\ ~gameOver
  /\ Len(effects.options) = 2
  /\ Cardinality(Range(effects.options[1]) \cap Range(effects.options[2])) = 2
  /\ \E p1, p2 \in Range(effects.options[1]) :
       effects.board[p1] \in Kittens /\ effects.board[p2] \in Cats

\* The step is a chooseGraduation call that returned normally.
ChosenStep == lastCall'.op = "chooseGraduation" /\ error' = NoError

Waiting == "waiting_for_graduation_choice"

(***************************************************************************)
(* C12 as stated: every successful placePiece that does not enter the      *)
(* waiting_for_graduation_choice pause, and every successful               *)
(* chooseGraduation, changes the mover to the other player, and the mover  *)
(* does not change in a step that leaves the mode                          *)
(* waiting_for_graduation_choice.                                          *)
(***************************************************************************)
C12_Original ==
  [][ /\ (PlacedStep /\ stateMode' # Waiting) => currentTurn' = Other(currentTurn)
      /\ ChosenStep => currentTurn' = Other(currentTurn)
      /\ stateMode' = Waiting => currentTurn' = currentTurn ]_vars

(***************************************************************************)
(* C12 as amended: every successful placePiece that neither ends the game  *)
(* nor enters the waiting_for_graduation_choice pause, and every           *)
(* successful chooseGraduation, changes the mover to the other player; a   *)
(* placement that ends the game leaves the mover as it is, and the mover   *)
(* does not change in a step that leaves the mode                          *)
(* waiting_for_graduation_choice nor in a rejected call.                   *)
(***************************************************************************)
C12_TurnFlips ==
  [][ /\ (PlacedStep /\ ~gameOver' /\ stateMode' # Waiting)
         => currentTurn' = Other(currentTurn)
      /\ ChosenStep => currentTurn' = Other(currentTurn)
      /\ (PlacedStep /\ gameOver') => currentTurn' = currentTurn
      /\ stateMode' = Waiting => currentTurn' = currentTurn
      /\ error' # NoError => currentTurn' = currentTurn ]_vars

\* A placement has ended the game: the mode is waiting_for_placement and the
\* mover is still the player who placed.
C12_Witness ==
  /\ Placed
  /\ gameOver
  /\ stateMode = "waiting_for_placement"
  /\ currentTurn = OwnerOf(lastCall.pieceType)

(***************************************************************************)
(* The functions of tensor.ts on action indices, called on their own:      *)
(* actionToMove and moveToAction on every index and every move, and        *)
(* applyAction on a few positions of the game.  applyAction works on a     *)
(* clone: the state it is given stays as it is.                            *)
(***************************************************************************)
MaxOutside == 2

\* The action indices handed in: every index of the action space and the
\* MaxOutside integers on either side of it.
ActionInputs == (0 - MaxOutside) .. (ACTION_SIZE - 1 + MaxOutside)

\* The state after a sequence of calls made on a new game.
RECURSIVE stateAfter(_, _)
stateAfter(s, calls) ==
  IF calls = << >> THEN s
  ELSE LET call == Head(calls)
           r == IF call.op = "placePiece"
                THEN placePiece(s, call.pieceType, call.position)
                ELSE chooseGraduation(s, call.choice)
       IN  stateAfter(r.state, Tail(calls))

\* A new game, a game after both players have graduated, a game waiting for
\* a graduation choice and a finished game.
CodecPositions ==
  { newGameState,
    stateAfter(newGameState, BothGraduate),
    stateAfter(newGameState, SubSeq(MixedChoice, 1, Len(MixedChoice) - 1)),
    stateAfter(newGameState, OrangeLine) }

CodecInit ==
  /\ \E s \in CodecPositions :
       /\ board = s.board
       /\ currentTurn = s.currentTurn
       /\ availablePieces = s.availablePieces
       /\ graduatedCount = s.graduatedCount
       /\ gameOver = s.gameOver
       /\ winner = s.winner
       /\ stateMode = s.stateMode
       /\ placeableSquares = s.placeableSquares
       /\ placeablePieces = s.placeablePieces
       /\ graduationChoices = s.graduationChoices
       /\ effects = NoEffects(s)
  /\ lastCall = [op |-> "constructor", pieceType |-> Null,
                 position |-> <<0, 0>>, choice |-> << >>]
  /\ error = NoError
  /\ opening = {}
  /\ played = 0
  /\ free = 0
  /\ codecCall = NoCodecCall
  /\ nnet = "none"
  /\ NoSearch
  /\ remaining = {}
  /\ NoClone
  /\ NoWorker
  /\ NoHook

notCodecVars ==
  << gameVars, lastCall, error, effects, opening, played, free, mctsVars,
     boopVars, cloneVars, workerVars, hookVars >>

ActionToMove(action) ==
  LET move == actionToMove(action)
  IN  /\ codecCall.op = "none"
      /\ codecCall' = [op |-> "actionToMove", action |-> action,
                       moveType |-> move.moveType, position |-> move.position,
                       error |-> NoError]
      /\ UNCHANGED notCodecVars

MoveToAction(moveType, position) ==
  /\ codecCall.op = "none"
  /\ codecCall' = [op |-> "moveToAction",
                   action |-> moveToAction(moveType, position),
                   moveType |-> moveType, position |-> position,
                   error |-> NoError]
  /\ UNCHANGED notCodecVars

ApplyAction(action) ==
  LET player == IF currentTurn = "orange" THEN 1 ELSE -1
      r == applyAction(State, player, action)
  IN  /\ codecCall.op = "none"
      /\ codecCall' = [op |-> "applyAction", action |-> action,
                       moveType |-> actionToMove(action).moveType,
                       position |-> actionToMove(action).position,
                       error |-> r.error]
      /\ UNCHANGED notCodecVars

\* The three functions keep nothing from one call to the next: a run makes
\* one call.
CodecNext ==
  \/ \E action \in ActionInputs : ActionToMove(action)
  \/ \E moveType \in MoveType, position \in Position :
       MoveToAction(moveType, position)
  \/ \E action \in ActionInputs : ApplyAction(action)

SpecCodec == CodecInit /\ [][CodecNext]_vars

\* The squares a move of one kind is made on: every square for a placement
\* and a single graduation, the centres of the lines of three for the others.
Rectangle(moveType) ==
  CASE moveType \in {PLACE_KITTEN, PLACE_CAT, SINGLE_GRADUATION} -> Position
    [] moveType = HORIZONTAL_TRIPLE_GRADUATION -> (0 .. 5) \X (1 .. 4)
    [] moveType = VERTICAL_TRIPLE_GRADUATION -> (1 .. 4) \X (0 .. 5)
    [] moveType \in {DIAGONAL_TRIPLE_GRADUATION_UP,
                     DIAGONAL_TRIPLE_GRADUATION_DOWN} -> (1 .. 4) \X (1 .. 4)

InRange(action) == action \in 0 .. 187

(***************************************************************************)
(* C13  Action encoding round-trips: for every index a of 0 .. 187,        *)
(* moveToAction of the position and kind actionToMove(a) returns is a, and *)
(* the position is in the rectangle of the kind; and every position of     *)
(* the rectangle of a kind is encoded as an index of 0 .. 187 that decodes *)
(* to the same position and kind, so that the indices and the              *)
(* 36+36+36+24+24+16+16 pairs are in bijection.                            *)
(***************************************************************************)
C13_RoundTrip ==
  /\ (codecCall.op = "actionToMove" /\ InRange(codecCall.action))
       => /\ codecCall.error = NoError
          /\ codecCall.moveType \in MoveType
          /\ codecCall.position \in Rectangle(codecCall.moveType)
          /\ moveToAction(codecCall.moveType, codecCall.position) = codecCall.action
  /\ (codecCall.op = "moveToAction"
      /\ codecCall.position \in Rectangle(codecCall.moveType))
       => /\ InRange(codecCall.action)
          /\ actionToMove(codecCall.action) =
               [position |-> codecCall.position, moveType |-> codecCall.moveType]

\* The last index, 187, was decoded: the diagonal-down line centred at (4,4).
C13_Witness ==
  /\ codecCall.op = "actionToMove"
  /\ codecCall.action = 187
  /\ codecCall.moveType = DIAGONAL_TRIPLE_GRADUATION_DOWN
  /\ codecCall.position = <<4, 4>>

(***************************************************************************)
(* C14  Invalid action indices fail: actionToMove and applyAction on an    *)
(* index outside 0 .. 187 throw, and moveToAction on a graduation kind and *)
(* a centre outside the rectangle of the kind throws.                      *)
(***************************************************************************)
C14_InvalidFails ==
  /\ (codecCall.op \in {"actionToMove", "applyAction"} /\ ~InRange(codecCall.action))
       => codecCall.error # NoError
  /\ (codecCall.op = "moveToAction"
      /\ codecCall.moveType >= SINGLE_GRADUATION
      /\ codecCall.position \notin Rectangle(codecCall.moveType))
       => codecCall.error # NoError

(***************************************************************************)
(* C15  Canonicalization, on the tensor t of every state of the game:      *)
(* getCanonicalForm(t, 1) is t; getCanonicalForm(t, -1) has channel 0 of   *)
(* t and the channels 1 and 2, 3 and 4, 5 and 6, 7 and 8 of t exchanged;   *)
(* applied twice with player -1 it returns t.                              *)
(***************************************************************************)
C15_Canonical ==
  LET t == gameStateToTensor(State)
      c == getCanonicalForm(t, -1)
  IN  /\ getCanonicalForm(t, 1) = t
      /\ \A k \in 0 .. (channelSize - 1) :
           /\ c[k] = t[k]
           /\ \A ch \in {1, 3, 5, 7} :
                /\ c[ch * channelSize + k] = t[(ch + 1) * channelSize + k]
                /\ c[(ch + 1) * channelSize + k] = t[ch * channelSize + k]
      /\ getCanonicalForm(c, -1) = t

\* A state waiting for a graduation choice (channel 0 holds 1) whose two
\* players differ in every pair of channels: in kittens and cats on the
\* board and in kittens and cats in reserve.
C15_Witness ==
  /\ stateMode = "waiting_for_graduation_choice"
  /\ Count(board, "ok") # Count(board, "gk")
  /\ Count(board, "oc") # Count(board, "gc")
  /\ availablePieces["ok"] # availablePieces["gk"]
  /\ availablePieces["oc"] # availablePieces["gc"]
  /\ getCanonicalForm(gameStateToTensor(State), -1) # gameStateToTensor(State)

\* The player number of the mover, as tensor.ts and MCTS.ts count players.
PlayerOf(owner) == IF owner = "orange" THEN 1 ELSE -1

\* The options of a state, each as the set of its squares.
OptionSets(choices) == {Range(choices[i]) : i \in 1 .. Len(choices)}

(***************************************************************************)
(* C16  Decode inverts encode: in every state of the game, with mover p,   *)
(* tensorToGameState(gameStateToTensor(s), p) has the board, the reserves, *)
(* the mover and the mode of s, and its graduation options, computed       *)
(* anew, are the options of s.                                             *)
(***************************************************************************)
C16_DecodeInverts ==
  LET decoded == tensorToGameState(gameStateToTensor(State), PlayerOf(currentTurn))
  IN  /\ decoded.board = board
      /\ \A tag \in PieceType : decoded.availablePieces[tag] = availablePieces[tag]
      /\ decoded.currentTurn = currentTurn
      /\ decoded.stateMode = stateMode
      /\ OptionSets(decoded.graduationChoices) = OptionSets(graduationChoices)

\* A state waiting for a choice between options, with cats and kittens on
\* the board and cats in reserve.
C16_Witness ==
  /\ stateMode = "waiting_for_graduation_choice"
  /\ Len(graduationChoices) >= 2
  /\ Count(board, "oc") > 0
  /\ Count(board, "gk") > 0
  /\ availablePieces["gc"] > 0

\* The action indices at which the mask of the state holds 1.
MaskOnes ==
  LET mask == getValidMoves(State)
  IN  {a \in 0 .. (ACTION_SIZE - 1) : mask[a] = 1}

\* The indices of the placements the rules allow the mover: a kitten on
\* every empty square when a kitten is in reserve, a cat when a cat is.
PlacementIndices ==
  LET empty == {pos \in Position : board[pos] = Null}
  IN  {pos[1] * 6 + pos[2] :
         pos \in {q \in empty : availablePieces[KittenOf(currentTurn)] > 0}}
      \cup
      {36 + pos[1] * 6 + pos[2] :
         pos \in {q \in empty : availablePieces[CatOf(currentTurn)] > 0}}

\* The index of an option, a set of one square or of three squares in a
\* line: single, horizontal, vertical, diagonal up (the row falls as the
\* column rises) or diagonal down, at the centre square.
OptionIndex(squares) ==
  IF Cardinality(squares) = 1
  THEN LET pos == CHOOSE q \in squares : TRUE
       IN  72 + pos[1] * 6 + pos[2]
  ELSE LET md == CHOOSE x \in Position \X Lines :
                   squares = {Shift(x[1], x[2], i) : i \in {-1, 0, 1}}
           row == md[1][1]
           col == md[1][2]
       IN  CASE md[2] = <<0, 1>> -> 108 + row * 4 + (col - 1)
             [] md[2] = <<1, 0>> -> 132 + (row - 1) * 6 + col
             [] md[2] = <<1, -1>> -> 156 + (row - 1) * 4 + (col - 1)
             [] md[2] = <<1, 1>> -> 172 + (row - 1) * 4 + (col - 1)

\* In the mode waiting_for_graduation_choice the mask holds as many 1 as
\* there are options, at the index of each option.
ChoiceMask ==
  stateMode = "waiting_for_graduation_choice" =>
    /\ MaskOnes = {OptionIndex(o) : o \in OptionSets(graduationChoices)}
    /\ Cardinality(MaskOnes) = Len(graduationChoices)

MaxSims == 3

\* The search calls of one MCTS object that nnet.predict may end with an
\* Error.
MaxFailures == 1

\* fromJSON
fromJSON(json) ==
  [board |-> json.board, currentTurn |-> json.currentTurn,
   availablePieces |-> json.availablePieces,
   graduatedCount |-> json.graduatedCount, gameOver |-> json.gameOver,
   winner |-> json.winner, stateMode |-> json.stateMode,
   placeableSquares |-> json.placeableSquares,
   placeablePieces |-> json.placeablePieces,
   graduationChoices |-> json.graduationChoices]

\* A state in which orange has one option to graduate: its three kittens of
\* row 0.
OneOption ==
  fromJSON(
    [board |-> [pos \in Position |->
                  IF pos \in {<<0, 0>>, <<0, 1>>, <<0, 2>>} THEN "ok" ELSE Null],
     currentTurn |-> "orange",
     availablePieces |-> [ok |-> 5, oc |-> 0, gk |-> 8, gc |-> 0],
     graduatedCount |-> [oc |-> 0, gc |-> 0],
     gameOver |-> FALSE, winner |-> Null,
     stateMode |-> "waiting_for_graduation_choice",
     placeableSquares |-> << >>, placeablePieces |-> << >>,
     graduationChoices |-> << << <<0, 0>>, <<0, 1>>, <<0, 2>> >> >>])

\* Orange has three kittens in row 0, from column 1 on: a kitten on the
\* corner makes two lines of three.
KittenRow ==
  << Place("ok", 2, 1), Place("gk", 3, 0), Place("ok", 2, 2), Place("gk", 3, 3),
     Place("ok", 0, 3), Place("gk", 2, 0) >>

\* Orange has no piece on the board and gray a kitten on (5,4): an orange
\* kitten on (4,5) boops it off the board, and a gray kitten on (5,4) then
\* boops that one off, which leaves the board as it was.
CycleStart ==
  << Place("ok", 5, 5), Place("gk", 0, 2), Place("ok", 4, 5), Place("gk", 5, 4) >>

\* The states getActionProb is called on: a new game, a game in which two
\* placements bring the position back, a game one placement
\* from a choice of two options, a game one placement from its end (a line
\* of orange; a line of gray and one of orange), a game that is over (won by
\* orange, won by gray), a game waiting for a choice (of orange, of gray),
\* and OneOption.
SearchRoots ==
  { newGameState,
    stateAfter(newGameState, CycleStart),
    stateAfter(newGameState, KittenRow),
    stateAfter(newGameState, SubSeq(OrangeLine, 1, Len(OrangeLine) - 1)),
    stateAfter(newGameState, SubSeq(PlacerLineFirst, 1, Len(PlacerLineFirst) - 1)),
    stateAfter(newGameState, OrangeLine),
    stateAfter(newGameState, GrayLine),
    stateAfter(newGameState, SubSeq(MixedChoice, 1, Len(MixedChoice) - 1)),
    stateAfter(newGameState, SubSeq(GrayChoice, 1, Len(GrayChoice) - 1)),
    OneOption }

\* What nnet.predict may answer: a policy (the weight of every index) and a
\* value.  The policies are the uniform one and the one with all its weight
\* on two indices: two thirds on a cat on row 2, column 2, and one third on
\* a cat on row 1, column 2.
uniformPolicy == [a \in 0 .. (ACTION_SIZE - 1) |-> 1]

peakPolicy ==
  [a \in 0 .. (ACTION_SIZE - 1) |->
     IF a = moveToAction(PLACE_CAT, <<2, 2>>) THEN 2
     ELSE IF a = moveToAction(PLACE_CAT, <<1, 2>>) THEN 1
     ELSE 0]

\* The policy with its weight on two indices, a kitten on (4,5) and a kitten
\* on (5,4).
cornerPolicy ==
  [a \in 0 .. (ACTION_SIZE - 1) |->
     IF a \in {moveToAction(PLACE_KITTEN, <<4, 5>>),
               moveToAction(PLACE_KITTEN, <<5, 4>>)} THEN 1 ELSE 0]

\* The evaluators: "uniform" answers the uniform policy and value 0 on
\* each call, or fails (the policy and the value of a call that fails are
\* not read); "any" answers the uniform policy and a value of -1 or 1, or
\* the peaked policy and the value 1; "corner" answers cornerPolicy and the
\* value -1.
Predictions(evaluator) ==
  IF evaluator = "uniform"
  THEN {[policy |-> uniformPolicy, value |-> 0, fails |-> f] : f \in BOOLEAN}
  ELSE IF evaluator = "corner"
  THEN {[policy |-> cornerPolicy, value |-> -1, fails |-> FALSE]}
  ELSE {[policy |-> uniformPolicy, value |-> v, fails |-> FALSE] : v \in {-1, 1}}
       \cup {[policy |-> peakPolicy, value |-> 1, fails |-> FALSE]}

SearchInit ==
  /\ \E s \in SearchRoots :
       /\ board = s.board
       /\ currentTurn = s.currentTurn
       /\ availablePieces = s.availablePieces
       /\ graduatedCount = s.graduatedCount
       /\ gameOver = s.gameOver
       /\ winner = s.winner
       /\ stateMode = s.stateMode
       /\ placeableSquares = s.placeableSquares
       /\ placeablePieces = s.placeablePieces
       /\ graduationChoices = s.graduationChoices
       /\ effects = NoEffects(s)
  /\ lastCall = [op |-> "constructor", pieceType |-> Null,
                 position |-> <<0, 0>>, choice |-> << >>]
  /\ error = NoError
  /\ opening = {}
  /\ played = 0
  /\ free = 0
  /\ codecCall = NoCodecCall
  /\ nnet \in {"uniform", "any", "corner"}
  /\ Qsa = emptyTables.Qsa
  /\ Nsa = emptyTables.Nsa
  /\ Ns = emptyTables.Ns
  /\ Ps = emptyTables.Ps
  /\ Es = emptyTables.Es
  /\ Vs = emptyTables.Vs
  /\ pc = "search"
  /\ simulation = 0
  /\ ends = << >>
  /\ temp = 1
  /\ probs = << >>
  /\ searches = << >>
  /\ remaining = {}
  /\ NoClone
  /\ NoWorker
  /\ NoHook

Tables == [Qsa |-> Qsa, Nsa |-> Nsa, Ns |-> Ns, Ps |-> Ps, Es |-> Es, Vs |-> Vs]

\* getActionProb: the player argument, and canonicalBoard
player == IF currentTurn = "orange" THEN 1 ELSE -1

canonicalBoard == array(getCanonicalForm(gameStateToTensor(State), player))

notMctsVars ==
  << gameVars, lastCall, error, effects, opening, played, free, codecVars,
     boopVars, cloneVars, workerVars, hookVars >>

\* The tables are left as the search call that returned r left them.
Searched(r) ==
  /\ Qsa' = r.m.Qsa
  /\ Nsa' = r.m.Nsa
  /\ Ns' = r.m.Ns
  /\ Ps' = r.m.Ps
  /\ Es' = r.m.Es
  /\ Vs' = r.m.Vs
  /\ searches' = Append(searches, [end |-> r.end, error |-> r.error, v |-> r.v,
                             queried |-> r.queried, answers |-> r.answers,
                             depth |-> r.depth, deepest |-> r.deepest,
                             guarded |-> r.guarded,
                             path |-> r.path, visited |-> r.visited,
                             found |-> Tables])
  /\ IF r.error = NoError
     THEN /\ ends' = Append(ends, r.end)
          /\ simulation' = simulation + 1
          /\ pc' = pc
     ELSE /\ pc' = "failed"
          /\ UNCHANGED << ends, simulation >>

\* getActionProb: one pass of the loop, a search from the root; the Error
\* of the search call ends getActionProb.
Search(prediction) ==
  /\ pc = "search"
  /\ simulation < MaxSims
  /\ prediction.fails => Len(searches) - simulation < MaxFailures
  /\ Searched(search(Tables, canonicalBoard, {}, prediction))
  /\ UNCHANGED << nnet, temp, probs, notMctsVars >>

\* The caller goes on after the Error of a search call, on the maps as the
\* failed call left them: the loop of the analysis worker catches the Error
\* of a simulation and makes the next search call, and a caller of
\* getActionProb may call it again on the same MCTS object and state.
Retry ==
  /\ pc = "failed"
  /\ pc' = "search"
  /\ UNCHANGED << Qsa, Nsa, Ns, Ps, Es, Vs, nnet, simulation, ends, temp, probs,
                  searches, notMctsVars >>

\* selectAction, after getActionProb has returned p at temperature 0: the
\* first index of the greatest probability, index 0 when all are equal.
selectAction(p) ==
  CHOOSE a \in 0 .. (ACTION_SIZE - 1) :
    /\ \A b \in 0 .. (ACTION_SIZE - 1) :
         p[b].num * p[a].den <= p[a].num * p[b].den
    /\ \A b \in 0 .. (a - 1) :
         p[b].num * p[a].den < p[a].num * p[b].den

\* getActionProb: after the loop, the probabilities are computed and
\* returned; bestA is the action Math.random draws from bestActions.
ReturnProbs(temperature, bestA) ==
  /\ pc = "search"
  /\ simulation >= 1
  /\ temp' = temperature
  /\ probs' = actionProbs(counts(Tables, tensorToString(canonicalBoard)),
                          temperature, bestA)
  /\ pc' = "done"
  /\ UNCHANGED << Qsa, Nsa, Ns, Ps, Es, Vs, nnet, simulation, ends, searches,
                  notMctsVars >>

SearchNext ==
  \/ \E prediction \in Predictions(nnet) : Search(prediction)
  \/ Retry
  \/ \E temperature \in {0, 1} :
       \E bestA \in (LET best == bestActions(counts(Tables, tensorToString(canonicalBoard)))
                     IN  IF temperature = 0 /\ best # {} THEN best ELSE {-1}) :
         ReturnProbs(temperature, bestA)

SpecSearch == SearchInit /\ [][SearchNext]_vars


(***************************************************************************)
(* Vocabulary of the properties of the search.                             *)
(***************************************************************************)
Actions == 0 .. (ACTION_SIZE - 1)

\* N(root, a) for every action a: the visit counts the tables hold at the
\* key of the root.
RootN ==
  LET s == tensorToString(canonicalBoard)
  IN  array([a \in Actions |-> IF <<s, a>> \in DOMAIN Nsa THEN Nsa[<<s, a>>] ELSE 0])

\* The sum over the actions of N(root, a).
RootVisits == sumOver(RootN, 0, ACTION_SIZE - 1)

\* The simulations that ended at the root: all of these, and those of them
\* that did not expand it.
EndedAtRoot == {i \in 1 .. Len(ends) : ends[i] # "selected"}

StoppedAtRoot == {i \in EndedAtRoot : ends[i] # "expanded"}

\* The action is legal in the root state: the game accepts it from the
\* player to move.
Legal(a) == applyAction(State, player, a).error = NoError

\* C18 as stated: after K simulations from a newly constructed MCTS object
\* on a root that is not terminal, the sum over the actions of N(root, a)
\* is K minus the number of simulations that ended at the root without
\* expanding it, and there are no such simulations.
C18_Original ==
  ~gameOver =>
    /\ RootVisits = simulation - Cardinality(StoppedAtRoot)
    /\ StoppedAtRoot = {}

\* C18, amended: after K simulations from a newly constructed MCTS object
\* on a root that is not terminal, the sum over the actions of N(root, a)
\* is K minus the number of simulations that ended at the root, with or
\* without expanding it; exactly one simulation ends there, the first,
\* which expands the root, so that the sum is K - 1 for K >= 1.
C18_VisitCount ==
  ~gameOver =>
    /\ RootVisits = simulation - Cardinality(EndedAtRoot)
    /\ StoppedAtRoot = {}
    /\ simulation >= 1 => (EndedAtRoot = {1} /\ RootVisits = simulation - 1)

\* Three simulations have been made in a game that is not over, and two of
\* them have counted a visit of an action of the root.
C18_Witness ==
  /\ ~gameOver
  /\ pc = "search"
  /\ simulation = 3
  /\ ends = << "expanded", "selected", "selected" >>
  /\ RootVisits = 2


\* The actions that are legal in the root state.
LegalActions == {a \in Actions : Legal(a)}

\* The distribution with probability 1 on action a.
Indicator(a) == [b \in Actions |-> IF b = a THEN Rat(1, 1) ELSE Rat(0, 1)]

\* The call has returned at temperature 0 from a newly constructed MCTS
\* object whose evaluator answers the uniform policy and value 0, on a
\* position with exactly one legal action.
OneLegalReturned ==
  /\ pc = "done"
  /\ temp = 0
  /\ nnet = "uniform"
  /\ Cardinality(LegalActions) = 1

\* C19 as stated: with an evaluator that answers the uniform policy and
\* value 0, on a position with exactly one legal action, getActionProb at
\* temperature 0 on a newly constructed MCTS object returns probability 1
\* on that action, for every number of simulations from 1 on.
C19_Original ==
  (OneLegalReturned /\ simulation >= 1) =>
    \A a \in LegalActions : probs = Indicator(a)

\* C19, amended: the same for every number of simulations from 2 on; after
\* one simulation every probability returned is 0.
C19_OneLegalAction ==
  /\ (OneLegalReturned /\ simulation >= 2) =>
       \A a \in LegalActions : probs = Indicator(a)
  /\ (OneLegalReturned /\ simulation = 1) =>
       \A a \in Actions : probs[a] = Rat(0, 1)

\* The call has returned after three simulations on the state in which the
\* only legal action is the graduation of the three kittens of row 0
\* (index 108: a horizontal line centred on row 0, column 1).
C19_Witness ==
  /\ OneLegalReturned
  /\ simulation = 3
  /\ LegalActions = {moveToAction(HORIZONTAL_TRIPLE_GRADUATION, <<0, 1>>)}
  /\ probs[moveToAction(HORIZONTAL_TRIPLE_GRADUATION, <<0, 1>>)] = Rat(1, 1)


\* C20 as stated: when getActionProb has returned, then at temperature 0
\* the result is 1 on one action whose root visit count is the greatest and
\* 0 on every other action, and at temperature 1 the probability of each
\* action is N(root, a) over the sum of the root visit counts; at both
\* temperatures every action of non-zero probability is legal in the root
\* state, and the result is all-zero only when every root visit count is 0.
C20_Original ==
  pc = "done" =>
    LET n == RootN
        total == RootVisits
    IN  /\ temp = 0 =>
             \E a \in Actions :
               /\ \A b \in Actions : n[b] <= n[a]
               /\ probs = Indicator(a)
        /\ temp = 1 =>
             \A a \in Actions :
               probs[a].num * total = n[a] * probs[a].den
        /\ \A a \in Actions : probs[a].num # 0 => Legal(a)
        /\ (\A a \in Actions : probs[a].num = 0) => total = 0

\* C20, amended: when getActionProb has returned and some root visit count
\* is not 0, then at temperature 0 the result is 1 on one action whose root
\* visit count is the greatest and 0 on every other action, and at
\* temperature 1 the probability of each action is N(root, a) over the sum
\* of the root visit counts; at both temperatures every action of non-zero
\* probability is legal in the root state, and the result is all-zero
\* exactly when every root visit count is 0.
C20_ActionProbs ==
  pc = "done" =>
    LET n == RootN
        total == RootVisits
    IN  /\ (temp = 0 /\ total > 0) =>
             \E a \in Actions :
               /\ \A b \in Actions : n[b] <= n[a]
               /\ probs = Indicator(a)
        /\ (temp = 1 /\ total > 0) =>
             \A a \in Actions :
               /\ probs[a].num * total = n[a] * probs[a].den
               /\ probs[a].den > 0
        /\ \A a \in Actions : probs[a].num # 0 => Legal(a)
        /\ (\A a \in Actions : probs[a].num = 0) <=> total = 0

\* The call has returned at temperature 1 after three simulations that
\* visited two actions of the root once each: each has probability 1/2.
C20_Witness ==
  /\ pc = "done"
  /\ temp = 1
  /\ simulation = 3
  /\ Cardinality({a \in Actions : probs[a] = Rat(1, 2)}) = 2


(***************************************************************************)
(* Properties of one search call: the failure of the evaluator, the        *)
(* expansion of a leaf, the values backed up and the statistics.           *)
(***************************************************************************)
\* The last search call the loop made.
LastSearch == searches[Len(searches)]

Querying == {i \in DOMAIN searches : searches[i].queried # << >>}

Answered == {i \in Querying : ~searches[i].answers[1].fails}

\* The legal mask of an expanded state, and the weight a policy has on a
\* set of actions.
LegalMask(s) == {a \in Actions : Vs[s][a] = 1}

Mass(policy, legal) ==
  sumOver(array([a \in Actions |-> IF a \in legal THEN policy[a] ELSE 0]),
          0, ACTION_SIZE - 1)

\* No search call calls nnet.predict twice.
OncePerSimulation == \A i \in DOMAIN searches : Len(searches[i].queried) <= 1

\* prior is 0 outside the legal actions, the policy over its mass on the
\* legal actions when that is positive, one over the number of legal
\* actions when it is zero.
Restricted(prior, policy, legal, mass) ==
  /\ \A a \in Actions \ legal : prior[a].num = 0
  /\ \A a \in legal :
       IF mass > 0
       THEN prior[a].num * mass = policy[a] * prior[a].den
       ELSE prior[a].num * Cardinality(legal) = prior[a].den

RestrictedTo(prior, policy, legal) ==
  Restricted(prior, policy, legal, Mass(policy, legal))

\* The prior stored for the state of every answer is the policy of the
\* answer restricted to the legal mask of the state.
StoredPrior ==
  \A i \in Answered :
    /\ searches[i].queried[1] \in DOMAIN Ps
    /\ RestrictedTo(Ps[searches[i].queried[1]], searches[i].answers[1].policy,
                    LegalMask(searches[i].queried[1]))

\* The last search call, if nnet.predict answered in it: the call at the
\* leaf returned the value of the answer, and the maps Nsa and Qsa have no
\* entry of the leaf and, off the path above it, the entries they had.
ExpandingVisit ==
  (searches # << >> /\ Len(searches) \in Answered) =>
    LET s == LastSearch.queried[1]
        onPath == {<<LastSearch.path[k].s, LastSearch.path[k].a>> :
                     k \in DOMAIN LastSearch.path}
    IN  /\ IF LastSearch.path = << >>
           THEN LastSearch.v = LastSearch.answers[1].value
           ELSE LastSearch.path[Len(LastSearch.path)].below
                  = LastSearch.answers[1].value
        /\ \A key \in DOMAIN Nsa \cup DOMAIN Qsa : key[1] # s
        /\ Ns[s] = 0
        /\ \A key \in (DOMAIN Nsa \cup DOMAIN LastSearch.found.Nsa) \ onPath :
             /\ key \in DOMAIN Nsa /\ key \in DOMAIN LastSearch.found.Nsa
             /\ Nsa[key] = LastSearch.found.Nsa[key]
             /\ Qsa[key] = LastSearch.found.Qsa[key]

\* C27 as stated: in the search calls made on one MCTS object, nnet.predict
\* is called at most once for each key and at most once in each search
\* call; the stored prior is 0 outside the legal mask, the policy restricted
\* to the mask and renormalized when it has positive mass there, uniform
\* over the mask when it has none; the expanding visit returns the value of
\* the evaluator and changes no Nsa or Qsa entry.
C27_Original ==
  /\ \A i, j \in Querying : searches[i].queried = searches[j].queried => i = j
  /\ OncePerSimulation
  /\ StoredPrior
  /\ ExpandingVisit

\* C27, amended: nnet.predict answers at most once for each key (a key it
\* failed on is queried again by the next search call that reaches it) and
\* is called at most once in each search call; the rest as stated.
C27_LeafExpansion ==
  /\ \A i, j \in Answered : searches[i].queried = searches[j].queried => i = j
  /\ \A i \in Querying \ Answered :
       i < Len(searches) =>
         (i + 1) \in Querying /\ searches[i + 1].queried = searches[i].queried
  /\ OncePerSimulation
  /\ StoredPrior
  /\ ExpandingVisit

\* nnet.predict has answered for a leaf below the root whose policy has no
\* weight on the legal mask, after it had answered for a state with a
\* policy that has.
C27_Witness ==
  /\ searches # << >>
  /\ Len(searches) \in Answered
  /\ LastSearch.depth >= 2
  /\ Mass(LastSearch.answers[1].policy, LegalMask(LastSearch.queried[1])) = 0
  /\ \E i \in Answered :
       Mass(searches[i].answers[1].policy, LegalMask(searches[i].queried[1])) > 0

\* nnet.predict failed on a key and has answered for it in a later call.
C27_Requeried ==
  \E i \in Querying \ Answered :
    \E j \in Answered : searches[j].queried = searches[i].queried

\* The updates of Qsa and Nsa made by the search calls, in the order of the
\* calls: of every update the node, the action and the value backed up.
RECURSIVE BackedUpTo(_)
BackedUpTo(i) ==
  IF i = 0 THEN << >> ELSE BackedUpTo(i - 1) \o searches[i].path

BackedUp == BackedUpTo(Len(searches))

\* The sum of the values among the first n updates that were backed up
\* through key, and the number of all those updates.
RECURSIVE Total(_, _, _)
Total(steps, key, n) ==
  IF n = 0 THEN 0
  ELSE Total(steps, key, n - 1)
         + (IF <<steps[n].s, steps[n].a>> = key THEN steps[n].v ELSE 0)

Visits(steps, key) ==
  Cardinality({n \in DOMAIN steps : <<steps[n].s, steps[n].a>> = key})

\* The sum over the actions of N(s, a).
SumNsa(s) ==
  sumOver(array([a \in Actions |->
                   IF <<s, a>> \in DOMAIN Nsa THEN Nsa[<<s, a>>] ELSE 0]),
          0, ACTION_SIZE - 1)

\* q is the mean of the values backed up through key, and within [-1, 1].
MeanOf(q, steps, key) ==
  /\ q.den > 0
  /\ q.num * Visits(steps, key) = Total(steps, key, Len(steps)) * q.den
  /\ q.num <= q.den
  /\ 0 - q.den <= q.num

\* C29: after any number of search calls on one MCTS object, N(s) is the
\* sum over the actions of N(s, a) for every expanded state s; Nsa and Qsa
\* have the same keys, each a legal action of an expanded state; N(s, a) is
\* the number of values backed up through (s, a) and Q(s, a) their
\* arithmetic mean, which is within [-1, 1].
C29_Statistics ==
  /\ DOMAIN Ns = DOMAIN Ps
  /\ \A s \in DOMAIN Ps : Ns[s] = SumNsa(s)
  /\ DOMAIN Nsa = DOMAIN Qsa
  /\ \A key \in DOMAIN Nsa :
       /\ key[1] \in DOMAIN Ps
       /\ key[2] \in LegalMask(key[1])
       /\ Nsa[key] = Visits(BackedUp, key)
       /\ Nsa[key] >= 1
       /\ MeanOf(Qsa[key], BackedUp, key)

\* Some action has been visited twice, with values that differ, and a state
\* below the root has a visited action.
C29_Witness ==
  /\ \E key \in DOMAIN Nsa :
       /\ Nsa[key] = 2
       /\ Qsa[key].num = 0
       /\ \E n \in DOMAIN BackedUp :
            <<BackedUp[n].s, BackedUp[n].a>> = key /\ BackedUp[n].v # 0
  /\ \E i \in DOMAIN searches : Len(searches[i].path) >= 2

(***************************************************************************)
(* The terminal check of the search on the placements of the game.  The    *)
(* search applies a placement to the state it rebuilds from the canonical  *)
(* tensor of the node, in which the player to move is player 1, and reads  *)
(* the status of the next node off the canonical tensor of the result.     *)
(***************************************************************************)
\* The player of the last placement: 1 is orange, -1 is gray.
Placer == IF lastCall.pieceType \in {"ok", "oc"} THEN 1 ELSE -1

\* The canonical tensor of the node the placement was made at.
NodeTensor ==
  array(getCanonicalForm(
          gameStateToTensor([newGameState EXCEPT
                               !.board = effects.boardBefore,
                               !.availablePieces = effects.piecesBefore]),
          Placer))

\* applyActionToTensor on the node and the action of the placement, before
\* the conversion of the new state to a tensor.
NodeMove ==
  applyAction(stateFromTensor(NodeTensor), 1,
              moveToAction(IF lastCall.pieceType \in Cats THEN PLACE_CAT
                           ELSE PLACE_KITTEN,
                           lastCall.position))

\* search: the Es entry of the next node.
EndedOf(next) ==
  checkGameEndedFromTensor(
    array(getCanonicalForm(gameStateToTensor(next.state), next.nextPlayer)))

NextEnded == EndedOf(NodeMove)

PlacerName == IF Placer = 1 THEN "orange" ELSE "gray"

\* C26 as stated: after a placement the terminal check on the next
\* canonical tensor is non-zero exactly when the engine set gameOver, in
\* the game and in the state the search rebuilt, and its sign names the
\* winner of the engine: -1 for the mover of the next node when the placer
\* won, +1 when the placement made the other player win, also when the
\* placement leaves lines of three cats of both owners.
C26_TerminalCheck ==
  Placed =>
    /\ NodeMove.error = NoError
    /\ NodeMove.state.gameOver = gameOver
    /\ (NextEnded # 0) = gameOver
    /\ gameOver => NextEnded = (IF winner = PlacerName THEN -1 ELSE 1)

\* The engine and the terminal check name different winners.
C26_Disagree ==
  /\ Placed
  /\ gameOver
  /\ winner = PlacerName
  /\ NextEnded = 1

\* The name of a player: 1 is orange, -1 is gray.
NameOf(p) == IF p = 1 THEN "orange" ELSE "gray"

\* The steps of a path from the k-th on, the game being in state with p to
\* move at the node of the k-th step, against the game: the node of the
\* step is the key of the state; the value backed up is the value returned
\* from below, negated exactly when the action passed the move to the other
\* player, and so as it is when the action left the game waiting for a
\* graduation choice.  With wins, also: the value backed up is 1 when the
\* action won the game for p.
RECURSIVE Perspective(_, _, _, _, _)
PerspectiveAt(step, p, next, path, k, wins) ==
  /\ next.error = NoError
  /\ step.v = (IF next.nextPlayer # p THEN 0 - step.below ELSE step.below)
  /\ next.state.stateMode = "waiting_for_graduation_choice"
       => step.v = step.below
  /\ (wins /\ next.state.gameOver /\ next.state.winner = NameOf(p))
       => step.v = 1
  /\ Perspective(next.state, next.nextPlayer, path, k + 1, wins)

Perspective(state, p, path, k, wins) ==
  k > Len(path) \/
    /\ path[k].s = tensorToString(getCanonicalForm(gameStateToTensor(state), p))
    /\ PerspectiveAt(path[k], p, applyAction(state, p, path[k].a), path, k, wins)

\* C28 as stated: at every node of the path of a search call the value of
\* the child is negated before the update if and only if the action chosen
\* passed the move to the other player, it is backed up as it is when the
\* action leaves the game waiting for a graduation choice, and a move that
\* wins the game for the mover of the node is backed up as +1.
C28_ValuePerspective ==
  searches # << >> => Perspective(State, player, LastSearch.path, 1, TRUE)

\* The same without its last part, the value of a winning move.
C28_Negation ==
  searches # << >> => Perspective(State, player, LastSearch.path, 1, FALSE)

\* A move that the game counts as a win of the mover has been backed up as
\* a loss.
C28_WinBackedUpAsLoss ==
  /\ searches # << >>
  /\ LastSearch.path # << >>
  /\ LastSearch.path[1].v = -1
  /\ applyAction(State, player, LastSearch.path[1].a).state.gameOver
  /\ applyAction(State, player, LastSearch.path[1].a).state.winner = NameOf(player)

\* The nodes of the path of the last search call.
PathNodes == {LastSearch.path[k].s : k \in DOMAIN LastSearch.path}

\* C25: every search call ends; its calls are nested at most one deeper
\* than there are expanded states; no state is entered twice on one path; a
\* call on a state that is on the path already returns 0 and leaves the
\* statistics of that state to the one update of the call that entered it;
\* and the visited set is empty when the call from the loop returns.
C25_Termination ==
  searches # << >> =>
    /\ LastSearch.depth <= Cardinality(DOMAIN LastSearch.found.Ps) + 1
    /\ LastSearch.error = NoError => LastSearch.visited = {}
    /\ \A k, l \in DOMAIN LastSearch.path :
         LastSearch.path[k].s = LastSearch.path[l].s => k = l
    /\ \A s \in PathNodes : Ns[s] = LastSearch.found.Ns[s] + 1
    /\ (LastSearch.deepest = "cycle") = (LastSearch.guarded # << >>)
    /\ LastSearch.deepest = "cycle" =>
         /\ LastSearch.guarded[1] \in PathNodes
         /\ LastSearch.depth = Len(LastSearch.path) + 1
         /\ LastSearch.path[Len(LastSearch.path)].below = 0

\* A search call has come back to the state of the root two placements
\* down the path, and has returned.
C25_Witness ==
  /\ searches # << >>
  /\ LastSearch.deepest = "cycle"
  /\ LastSearch.error = NoError
  /\ LastSearch.depth = Cardinality(DOMAIN LastSearch.found.Ps) + 1
  /\ LastSearch.guarded = << tensorToString(canonicalBoard) >>

(***************************************************************************)
(* boopPieces with the loop over DIRECTIONS run in any order.  A piece is  *)
(* put on an empty square of a position of one of the openings, next to    *)
(* two pieces or more, and the iterations of the loop are then run one     *)
(* direction at a time, each direction once, in every order.               *)
(***************************************************************************)
\* The positions of four of the openings in which a piece can be placed.
BoopPositions ==
  {s \in UNION {{stateAfter(newGameState, SubSeq(o, 1, n)) : n \in 0 .. Len(o)} :
                   o \in {DoubleLine, MixedChoice, ThreeCases, PlacerLineFirst}} :
     ~s.gameOver /\ s.stateMode = "waiting_for_placement"}

\* The neighbours of a square that hold a piece.
Neighbours(s, position) ==
  {d \in Around : OnBoard(Shift(position, d, 1))
                  /\ s.board[Shift(position, d, 1)] # Null}

\* this.board[row][col] = pieceType
Put(b, position, pieceType) ==
  array([pos \in Position |-> IF pos = position THEN pieceType ELSE b[pos]])

\* placePiece up to the call of boopPieces: the piece is on the board and
\* the reserve decremented.
BoopInit ==
  /\ \E s \in BoopPositions, pieceType \in PieceType, position \in Position :
       /\ placePieceError(s, pieceType, position) = NoError
       /\ Cardinality(Neighbours(s, position)) >= 2
       /\ board = Put(s.board, position, pieceType)
       /\ availablePieces = [s.availablePieces EXCEPT ![pieceType] = @ - 1]
       /\ currentTurn = s.currentTurn
       /\ graduatedCount = s.graduatedCount
       /\ gameOver = s.gameOver
       /\ winner = s.winner
       /\ stateMode = s.stateMode
       /\ placeableSquares = s.placeableSquares
       /\ placeablePieces = s.placeablePieces
       /\ graduationChoices = s.graduationChoices
       /\ lastCall = [op |-> "placePiece", pieceType |-> pieceType,
                      position |-> position, choice |-> << >>]
       /\ effects = [NoEffects(s) EXCEPT
                       !.boardBefore =
                          Put(s.board, position, pieceType),
                       !.piecesBefore =
                          [s.availablePieces EXCEPT ![pieceType] = @ - 1]]
  /\ error = NoError
  /\ opening = {}
  /\ played = 0
  /\ free = 0
  /\ codecCall = NoCodecCall
  /\ nnet = "none"
  /\ NoSearch
  /\ remaining = DOMAIN DIRECTIONS
  /\ NoClone
  /\ NoWorker
  /\ NoHook

\* The state is left as the iteration that returned s left it.
Booped(s) ==
  /\ board' = s.board
  /\ availablePieces' = s.availablePieces

\* boopPieces: the iteration of the loop for DIRECTIONS[i].
BoopStep(i) ==
  /\ i \in remaining
  /\ Booped(boopOne(State, lastCall.position, DIRECTIONS[i]))
  /\ remaining' = remaining \ {i}
  /\ UNCHANGED << currentTurn, graduatedCount, gameOver, winner, stateMode,
                  placeableSquares, placeablePieces, graduationChoices,
                  lastCall, error, effects, opening, played, free, codecVars,
                  mctsVars, cloneVars, workerVars, hookVars >>

BoopNext == \E i \in DOMAIN DIRECTIONS : BoopStep(i)

SpecBoop == BoopInit /\ [][BoopNext]_vars

\* The directions the loop has been through.
Done == {DIRECTIONS[i] : i \in DOMAIN DIRECTIONS \ remaining}

\* What becomes of the neighbour in direction d, computed against the board
\* before any boop.
CaseBefore(d) ==
  BoopCase(effects.boardBefore, lastCall.position, lastCall.pieceType, d)

\* The board and the reserves obtained by computing the boop of the
\* neighbour in every direction of D against the board before any boop.
BoardAgainstBefore(D) ==
  [pos \in Position |->
     IF \E d \in D : /\ pos = Shift(lastCall.position, d, 1)
                     /\ CaseBefore(d) \in {"move", "off"}
     THEN Null
     ELSE IF \E d \in D : /\ pos = Shift(lastCall.position, d, 2)
                          /\ CaseBefore(d) = "move"
     THEN effects.boardBefore[
            Shift(lastCall.position,
                  CHOOSE d \in D : /\ pos = Shift(lastCall.position, d, 2)
                                   /\ CaseBefore(d) = "move",
                  1)]
     ELSE effects.boardBefore[pos]]

ReservesAgainstBefore(D) ==
  [tag \in PieceType |->
     effects.piecesBefore[tag]
       + Cardinality({d \in D :
                        /\ CaseBefore(d) = "off"
                        /\ effects.boardBefore[Shift(lastCall.position, d, 1)] = tag})]

\* The state boopPieces was called in.
BeforeBoop ==
  [State EXCEPT !.board = effects.boardBefore,
                !.availablePieces = effects.piecesBefore]

\* C24: in whatever order the loop goes through the directions, after any
\* number of iterations the board and the reserves are those obtained by
\* computing the boops of the directions done against the board before any
\* boop; at the end they are those of the loop in the order of DIRECTIONS;
\* the placed piece is where it was put, and the squares that have changed
\* are neighbours of it or squares two steps from it.
C24_OrderIndependent ==
  /\ board = BoardAgainstBefore(Done)
  /\ availablePieces = ReservesAgainstBefore(Done)
  /\ board[lastCall.position] = lastCall.pieceType
  /\ remaining = {} =>
       /\ board = boopPieces(BeforeBoop, lastCall.position).board
       /\ availablePieces
            = boopPieces(BeforeBoop, lastCall.position).availablePieces

\* The loop has been through every direction: one neighbour has moved, one
\* has left the board and one has stayed where it was, blocked.
C24_Witness ==
  /\ remaining = {}
  /\ lastCall.op = "placePiece"
  /\ \A case \in {"move", "off", "blocked"} : \E d \in Around : CaseBefore(d) = case

(***************************************************************************)
(* clone and applyAction on objects.  The objects and arrays of the        *)
(* program are the entries of heap, a reference is the index of an entry:  *)
(* a GameState is an entry with its primitive fields and the references of *)
(* its board (an array of references of rows), of its availablePieces and  *)
(* graduatedCount objects and of its three cache arrays.  A method called  *)
(* on a GameState writes where the code writes: in the cells of the rows   *)
(* and in the counts of the two objects the GameState refers to, and in    *)
(* the fields of the GameState itself, the caches being assigned new       *)
(* arrays.  The positions held by the caches are never written to and are  *)
(* kept as values.  The game variables hold the value origin had when      *)
(* clone was called on it.                                                 *)
(***************************************************************************)
Rows == 1 .. BOARD_SIZE

\* board[row - 1]
rowOf(b, row) == [col \in Rows |-> b[<< row - 1, col - 1 >>]]

\* The value of the GameState at reference a: what its fields and the
\* objects they refer to hold.
valueAt(h, a) ==
  [board |-> array([pos \in Position |->
                      h[h[h[a].board][pos[1] + 1]][pos[2] + 1]]),
   currentTurn |-> h[a].currentTurn,
   availablePieces |-> h[h[a].availablePieces],
   graduatedCount |-> h[h[a].graduatedCount],
   gameOver |-> h[a].gameOver,
   winner |-> h[a].winner,
   stateMode |-> h[a].stateMode,
   placeableSquares |-> h[h[a].placeableSquares],
   placeablePieces |-> h[h[a].placeablePieces],
   graduationChoices |-> h[h[a].graduationChoices]]

\* A GameState of value s whose parts are the entries from reference first:
\* the rows, the board, the two objects and the three caches.
objectOf(s, first) ==
  [board |-> first + BOARD_SIZE,
   currentTurn |-> s.currentTurn,
   availablePieces |-> first + BOARD_SIZE + 1,
   graduatedCount |-> first + BOARD_SIZE + 2,
   gameOver |-> s.gameOver,
   winner |-> s.winner,
   stateMode |-> s.stateMode,
   placeableSquares |-> first + BOARD_SIZE + 3,
   placeablePieces |-> first + BOARD_SIZE + 4,
   graduationChoices |-> first + BOARD_SIZE + 5]

\* The entries of a GameState of value s made with rows of its own, the
\* GameState last.
allocated(h, s) ==
  h \o [row \in Rows |-> rowOf(s.board, row)]
    \o << [row \in Rows |-> Len(h) + row], s.availablePieces,
          s.graduatedCount, s.placeableSquares, s.placeablePieces,
          s.graduationChoices, objectOf(s, Len(h) + 1) >>

\* Variant: state.board = [...this.board], the rows are those of this.
clone_sharesRows(h, a) ==
  LET made == allocated(h, valueAt(h, a))
  IN  [heap |-> [made EXCEPT ![Len(h) + BOARD_SIZE + 1] = h[h[a].board]],
       ref |-> Len(made)]

\* clone: the heap with the new GameState and the reference of it.
clone(h, a) ==
  LET made == allocated(h, valueAt(h, a))
  IN  [heap |-> made, ref |-> Len(made)]

\* placePiece and chooseGraduation called on the GameState at reference a,
\* r being what the method makes of its value: nothing is written when it
\* throws; otherwise the rows, availablePieces and graduatedCount are written
\* in place, the caches are new arrays and the fields are assigned.
written(h, a, r) ==
  IF r.error # NoError THEN h
  ELSE [k \in 1 .. Len(h) |->
          IF \E row \in Rows : h[h[a].board][row] = k
          THEN rowOf(r.state.board,
                     CHOOSE row \in Rows : h[h[a].board][row] = k)
          ELSE IF k = h[a].availablePieces THEN r.state.availablePieces
          ELSE IF k = h[a].graduatedCount THEN r.state.graduatedCount
          ELSE IF k = a
          THEN [h[a] EXCEPT !.currentTurn = r.state.currentTurn,
                            !.gameOver = r.state.gameOver,
                            !.winner = r.state.winner,
                            !.stateMode = r.state.stateMode,
                            !.placeableSquares = Len(h) + 1,
                            !.placeablePieces = Len(h) + 2,
                            !.graduationChoices = Len(h) + 3]
          ELSE h[k]]
       \o << r.state.placeableSquares, r.state.placeablePieces,
             r.state.graduationChoices >>

\* The states clone is called on: a new game, games under way, a game
\* waiting for a graduation choice and a finished game.
ClonePositions ==
  { newGameState,
    stateAfter(newGameState, SubSeq(ThreeCases, 1, Len(ThreeCases) - 1)),
    stateAfter(newGameState, SubSeq(MixedChoice, 1, Len(MixedChoice) - 1)),
    stateAfter(newGameState, SubSeq(OrangeLine, 1, Len(OrangeLine) - 1)),
    stateAfter(newGameState, OrangeLine) }

\* The calls made on the returned state after clone or applyAction returned it.
MaxLater == 1

\* The call op, which has neither piece nor choice.
Called(op) ==
  [op |-> op, pieceType |-> Null, position |-> <<0, 0>>, choice |-> << >>]

CloneInit ==
  /\ \E s \in ClonePositions :
       /\ board = s.board
       /\ currentTurn = s.currentTurn
       /\ availablePieces = s.availablePieces
       /\ graduatedCount = s.graduatedCount
       /\ gameOver = s.gameOver
       /\ winner = s.winner
       /\ stateMode = s.stateMode
       /\ placeableSquares = s.placeableSquares
       /\ placeablePieces = s.placeablePieces
       /\ graduationChoices = s.graduationChoices
       /\ heap = allocated(<< >>, s)
       /\ origin = Len(allocated(<< >>, s))
       /\ effects = NoEffects(s)
  /\ derived = 0
  /\ lastCall = Called("constructor")
  /\ error = NoError
  /\ opening = {}
  /\ played = 0
  /\ free = 0
  /\ codecCall = NoCodecCall
  /\ nnet = "none"
  /\ NoSearch
  /\ remaining = {}
  /\ NoWorker
  /\ NoHook

\* Everything but the heap, the returned reference and the record of the
\* last call is left alone.
CloneFrame ==
  UNCHANGED << gameVars, effects, opening, played, origin, codecVars,
               mctsVars, boopVars, workerVars, hookVars >>

\* const newState = state.clone()
Clone ==
  /\ derived = 0
  /\ heap' = clone(heap, origin).heap
  /\ derived' = clone(heap, origin).ref
  /\ lastCall' = Called("clone")
  /\ error' = NoError
  /\ UNCHANGED free
  /\ CloneFrame

\* applyAction(state, player, action): the clone, then the move made on the
\* clone; when the move throws nothing is returned, and the clone, which
\* nothing refers to, is left out of the heap.
ApplyToClone(mover, action) ==
  /\ derived = 0
  /\ LET c == clone(heap, origin)
         r == applyMove(valueAt(c.heap, c.ref), mover, actionToMove(action))
     IN  /\ heap' = IF r.error = NoError THEN written(c.heap, c.ref, r)
                    ELSE heap
         /\ derived' = IF r.error = NoError THEN c.ref ELSE 0
         /\ error' = r.error
  /\ lastCall' = Called("applyAction")
  /\ UNCHANGED free
  /\ CloneFrame

\* newState.placePiece(pieceType, position), a later call
PlaceOnDerived(pieceType, position) ==
  /\ derived # 0
  /\ free < MaxLater
  /\ LET r == placePiece(valueAt(heap, derived), pieceType, position)
     IN  /\ heap' = written(heap, derived, r)
         /\ error' = r.error
  /\ lastCall' = Place(pieceType, position[1], position[2])
  /\ free' = free + 1
  /\ UNCHANGED derived
  /\ CloneFrame

\* newState.chooseGraduation(choice), a later call
ChooseOnDerived(choice) ==
  /\ derived # 0
  /\ free < MaxLater
  /\ LET r == chooseGraduation(valueAt(heap, derived), choice)
     IN  /\ heap' = written(heap, derived, r)
         /\ error' = r.error
  /\ lastCall' = Choose(choice)
  /\ free' = free + 1
  /\ UNCHANGED derived
  /\ CloneFrame

\* The choices of the returned state, and choices that are not among them.
LaterChoices ==
  ProbeChoices
  \cup (IF derived = 0 THEN {}
        ELSE {heap[heap[derived].graduationChoices][i] :
                i \in DOMAIN heap[heap[derived].graduationChoices]})

CloneNext ==
  \/ Clone
  \/ \E mover \in {1, -1}, action \in 0 .. ACTION_SIZE - 1 :
       ApplyToClone(mover, action)
  \/ \E pieceType \in PieceType, position \in FreeSquares :
       PlaceOnDerived(pieceType, position)
  \/ \E choice \in LaterChoices : ChooseOnDerived(choice)

SpecClone == CloneInit /\ [][CloneNext]_vars

\* C23: the state clone or applyAction returned is a new object, and
\* whatever calls were made on it, the state it was made from has the board,
\* reserves, graduated counts, turn, mode, outcome and caches it had when
\* the call was made.
C23_OriginUntouched ==
  derived # 0 =>
    /\ derived # origin
    /\ valueAt(heap, origin) = State

\* A later placePiece on the returned state has returned and the board of
\* the returned state is no longer that of the state it was made from.
C23_Witness ==
  /\ derived # 0
  /\ free > 0
  /\ error = NoError
  /\ lastCall.op = "placePiece"
  /\ valueAt(heap, derived).board # board
  /\ valueAt(heap, derived).availablePieces # availablePieces

(***************************************************************************)
(* The analysis worker.  The worker runs one task at a time: a message     *)
(* handler or the continuation of an await runs, without interruption, up  *)
(* to its next await of a timer or of the evaluator.  An action is one     *)
(* such run.  A simulation awaits the evaluator, so the loop of            *)
(* runAnalysis stops at each simulation, and at the timer at the end of    *)
(* each batch; the 'analyze' handler stops at each timer of its wait.  The *)
(* model is loaded (session is set) and every 'analyze' message carries a  *)
(* position and a config.                                                  *)
(***************************************************************************)
batchSize == 10

\* The number of 10 ms timers the 'analyze' handler waits for the running
\* analysis before it starts the new one anyway: 100 in the code.  What the
\* tasks between two timers do does not depend on the count, and the model
\* lets the handler give up after fewer.
MaxWait == 2

\* The messages the worker receives.
MaxMessages == 3

WorkerInit ==
  /\ board = newGameState.board
  /\ currentTurn = newGameState.currentTurn
  /\ availablePieces = newGameState.availablePieces
  /\ graduatedCount = newGameState.graduatedCount
  /\ gameOver = newGameState.gameOver
  /\ winner = newGameState.winner
  /\ stateMode = newGameState.stateMode
  /\ placeableSquares = newGameState.placeableSquares
  /\ placeablePieces = newGameState.placeablePieces
  /\ graduationChoices = newGameState.graduationChoices
  /\ lastCall = Called("constructor")
  /\ error = NoError
  /\ effects = NoEffects(newGameState)
  /\ opening = {}
  /\ played = 0
  /\ free = 0
  /\ codecCall = NoCodecCall
  /\ nnet = "none"
  /\ NoSearch
  /\ remaining = {}
  /\ NoClone
  /\ NoWorker
  /\ NoHook

notWorkerVars ==
  << gameVars, lastCall, error, effects, opening, played, free, codecVars,
     mctsVars, boopVars, cloneVars, hookVars >>

\* resetMCTS, as the other runAnalysis calls see it: the tables of a call
\* that has a simulation awaiting the evaluator are cleared under it.
resetMCTS(ls) ==
  [k \in DOMAIN ls |->
     IF ls[k].pc = "simulation" THEN [ls[k] EXCEPT !.cleared = TRUE]
     ELSE ls[k]]

\* runAnalysis up to its first await: the flags are set, the tables are
\* cleared and the first simulation of the first batch is started.
runAnalysis ==
  /\ isAnalyzing' = TRUE
  /\ abortAnalysis' = FALSE
  /\ loops' = Append(resetMCTS(loops),
                     [pc |-> "simulation", i |-> 0, cleared |-> FALSE])

\* onmessage, 'analyze': the flag is raised; the new analysis is started at
\* once when none is running, and the handler waits for a timer otherwise.
Analyze ==
  /\ received < MaxMessages
  /\ received' = received + 1
  /\ stopped' = FALSE
  /\ IF isAnalyzing
     THEN /\ abortAnalysis' = TRUE
          /\ waiting' = Append(waiting, 0)
          /\ UNCHANGED << isAnalyzing, loops >>
     ELSE /\ runAnalysis
          /\ UNCHANGED waiting
  /\ UNCHANGED notWorkerVars

\* The sequence without its h-th entry.
without(seq, h) == SubSeq(seq, 1, h - 1) \o SubSeq(seq, h + 1, Len(seq))

\* onmessage, 'analyze', after a timer of its wait: waitCount is
\* incremented; the handler goes on waiting while an analysis is running and
\* the count is below the limit, and otherwise starts the new analysis,
\* after it has set isAnalyzing to false itself if one is still running.
Poll(h) ==
  /\ h \in DOMAIN waiting
  /\ IF isAnalyzing /\ waiting[h] + 1 < MaxWait
     THEN /\ waiting' = [waiting EXCEPT ![h] = @ + 1]
          /\ UNCHANGED << isAnalyzing, abortAnalysis, loops >>
     ELSE /\ waiting' = without(waiting, h)
          /\ runAnalysis
  /\ UNCHANGED << received, stopped >>
  /\ UNCHANGED notWorkerVars

\* onmessage, 'stop'
Stop ==
  /\ received < MaxMessages
  /\ received' = received + 1
  /\ stopped' = TRUE
  /\ abortAnalysis' = TRUE
  /\ UNCHANGED << isAnalyzing, waiting, loops >>
  /\ UNCHANGED notWorkerVars

\* runAnalysis after the await of mctsSearch: the simulation has returned
\* or thrown, its back-propagation done; the next one of the batch is
\* started unless the batch is over or the flag is raised, and the loop then
\* waits for its timer.
Simulated(k) ==
  /\ k \in DOMAIN loops
  /\ loops[k].pc = "simulation"
  /\ loops' = [loops EXCEPT
                 ![k] = IF loops[k].i + 1 < batchSize /\ ~abortAnalysis
                        THEN [@ EXCEPT !.i = @ + 1]
                        ELSE [@ EXCEPT !.pc = "yield"]]
  /\ UNCHANGED << isAnalyzing, abortAnalysis, waiting, received, stopped >>
  /\ UNCHANGED notWorkerVars

\* runAnalysis after the timer at the end of a batch: the next batch is
\* started while the flag is down and isAnalyzing is set; otherwise the loop
\* is left and isAnalyzing is set to false.
Resumed(k) ==
  /\ k \in DOMAIN loops
  /\ loops[k].pc = "yield"
  /\ IF ~abortAnalysis /\ isAnalyzing
     THEN /\ loops' = [loops EXCEPT ![k] = [@ EXCEPT !.pc = "simulation",
                                                     !.i = 0]]
          /\ UNCHANGED isAnalyzing
     ELSE /\ loops' = [loops EXCEPT ![k] = [@ EXCEPT !.pc = "ended"]]
          /\ isAnalyzing' = FALSE
  /\ UNCHANGED << abortAnalysis, waiting, received, stopped >>
  /\ UNCHANGED notWorkerVars

WorkerNext ==
  \/ Analyze
  \/ Stop
  \/ \E h \in DOMAIN waiting : Poll(h)
  \/ \E k \in DOMAIN loops : Simulated(k)
  \/ \E k \in DOMAIN loops : Resumed(k)

SpecWorker == WorkerInit /\ [][WorkerNext]_vars

\* The runAnalysis calls that have not ended.
Active == {k \in DOMAIN loops : loops[k].pc # "ended"}

\* The step starts a simulation.
StartsSimulation ==
  \E k \in DOMAIN loops' :
    /\ loops'[k].pc = "simulation"
    /\ k \in DOMAIN loops =>
         loops[k].pc # "simulation" \/ loops[k].i # loops'[k].i

\* C22: once a 'stop' message has been received, and as long as no 'analyze'
\* message is received after it, no simulation is started.
C22_NoSimulationAfterStop ==
  [][stopped /\ stopped' => ~StartsSimulation]_vars

\* C22, the flag and the simulation in flight: the flag is read only in the
\* tasks that follow a simulation or a timer, so that a 'stop' leaves every
\* simulation in flight where it is.
C22_BetweenSimulations ==
  [][received' # received /\ stopped' =>
       \A k \in DOMAIN loops : loops[k].pc = "simulation" => loops'[k] = loops[k]]_vars

\* A 'stop' has been received and the analysis that was running has ended;
\* the analysis that a handler which waited for that end has started since,
\* no handler having given up its wait, is running a simulation.
C22_StartedAfterStop ==
  /\ stopped
  /\ Len(loops) = 2
  /\ loops[1].pc = "ended" /\ ~loops[1].cleared
  /\ loops[2].pc = "simulation"

\* C30: at most one runAnalysis call has not ended, and the tables have
\* never been cleared under a simulation in flight.
C30_OneLoop ==
  /\ Cardinality(Active) <= 1
  /\ \A k \in DOMAIN loops : ~loops[k].cleared

\* Two analyses run simulations on the tables at once.
C30_TwoLoops ==
  Cardinality({k \in DOMAIN loops : loops[k].pc = "simulation"}) >= 2

(***************************************************************************)
(* C31  Mode invariant: the mode is waiting_for_graduation_choice exactly  *)
(* when the list of graduation options is not empty; in that mode there    *)
(* are two options or more, every square of every option holds a piece of  *)
(* the mover, and the game is not over; in the mode waiting_for_placement  *)
(* the list is empty.                                                      *)
(***************************************************************************)
C31_ModeInvariant ==
  /\ stateMode = "waiting_for_graduation_choice" <=> graduationChoices # << >>
  /\ stateMode = "waiting_for_graduation_choice" =>
       /\ Len(graduationChoices) >= 2
       /\ \A i \in 1 .. Len(graduationChoices) :
            \A pos \in Range(graduationChoices[i]) :
              /\ board[pos] # Null
              /\ getPieceColor(board[pos]) = currentTurn
       /\ ~gameOver
  /\ stateMode = "waiting_for_placement" => graduationChoices = << >>

\* The game waits for a choice between three options or more, after a
\* choice that is not among them has been rejected.
C31_Witness ==
  /\ stateMode = "waiting_for_graduation_choice"
  /\ Len(graduationChoices) >= 3
  /\ lastCall.op = "chooseGraduation"
  /\ error = ErrInvalidChoice


\* The placements placePiece accepts in the state.
LegalPlacements ==
  {call \in PieceType \X Position :
     placePieceError(State, call[1], call[2]) = NoError}

\* The choices chooseGraduation accepts in the state, each as the set of
\* its squares.
LegalChoices ==
  {Range(graduationChoices[i]) :
     i \in {j \in 1 .. Len(graduationChoices) :
              chooseGraduation(State, graduationChoices[j]).error = NoError}}

(***************************************************************************)
(* C32  No dead end: in every state of a game in progress in the mode      *)
(* waiting_for_placement the mover has a kitten or a cat in reserve and    *)
(* the board has an empty square, and placePiece accepts a placement; in   *)
(* every state in the mode waiting_for_graduation_choice chooseGraduation  *)
(* accepts two choices or more.                                            *)
(***************************************************************************)
C32_NoDeadEnd ==
  /\ (~gameOver /\ stateMode = "waiting_for_placement") =>
       /\ availablePieces[KittenOf(currentTurn)]
            + availablePieces[CatOf(currentTurn)] >= 1
       /\ \E pos \in Position : board[pos] = Null
       /\ LegalPlacements # {}
  /\ stateMode = "waiting_for_graduation_choice" =>
       Cardinality(LegalChoices) >= 2

\* The mover is down to one piece in reserve, the other seven being on the
\* board, after having graduated one of eight.
C32_Witness ==
  /\ ~gameOver
  /\ stateMode = "waiting_for_placement"
  /\ availablePieces[KittenOf(currentTurn)]
       + availablePieces[CatOf(currentTurn)] = 1
  /\ Cardinality(LegalPlacements) >= 1


\* The action indices applyAction accepts for the mover of the state.
Applicable ==
  {a \in 0 .. (ACTION_SIZE - 1) :
     applyAction(State, PlayerOf(currentTurn), a).error = NoError}

(***************************************************************************)
(* C33  Mask and engine agree: in every state of a game in progress, for   *)
(* every action index of 0 .. 187, applyAction for the mover returns       *)
(* without an Error exactly when getValidMoves holds 1 at the index.       *)
(***************************************************************************)
C33_MaskAgrees ==
  ~gameOver => Applicable = MaskOnes

\* The game waits for a choice; applyAction accepts a diagonal graduation
\* the mask marks, and throws on a diagonal graduation it does not mark.
C33_Witness ==
  /\ ~gameOver
  /\ stateMode = "waiting_for_graduation_choice"
  /\ \E a \in ACTION_VERT_GRAD_END .. (ACTION_SIZE - 1) :
       a \in MaskOnes /\ a \in Applicable
  /\ \E a \in ACTION_VERT_GRAD_END .. (ACTION_SIZE - 1) :
       /\ a \notin MaskOnes
       /\ applyAction(State, PlayerOf(currentTurn), a).error = ErrInvalidChoice


\* selectAction has returned: getActionProb has returned at temperature 0,
\* on a root that is not terminal.
Selected == pc = "done" /\ temp = 0 /\ ~gameOver

(***************************************************************************)
(* C34  selectAction returns a legal action: on every root that is not     *)
(* terminal and after any number of simulations from 1 on, the index       *)
(* selectAction returns is an action the rules accept in the root state.   *)
(***************************************************************************)
C34_SelectAction ==
  Selected => Legal(selectAction(probs))

\* C34, where it holds: once an action of the root has been visited, the
\* index returned is legal.
C34_Visited ==
  (Selected /\ RootVisits > 0) => Legal(selectAction(probs))

\* selectAction has returned index 0 after the only simulation, which
\* expanded the root, a state of the game that waits for a choice between
\* graduation options, where no placement is legal.
C34_IllegalReturned ==
  /\ Selected
  /\ simulation = 1
  /\ stateMode = "waiting_for_graduation_choice"
  /\ Len(graduationChoices) >= 2
  /\ selectAction(probs) = 0
  /\ ~Legal(0)


(***************************************************************************)
(* The key of a canonical tensor                                           *)
(***************************************************************************)
\* The canonical tensor of a position: the tensor of the state seen by the
\* player to move.
canonicalOf(s) ==
  array(getCanonicalForm(gameStateToTensor(s), PlayerOf(s.currentTurn)))

\* Positions of the game the position reached is compared with: the game
\* after one kitten on a square of the top left quarter, and after each start
\* of two openings.
Fingerprinted ==
  {stateAfter(newGameState, << Place("ok", p[1], p[2]) >>) : p \in FreeSquares}
  \cup {stateAfter(newGameState, SubSeq(MixedChoice, 1, n)) :
          n \in 0 .. Len(MixedChoice)}
  \cup {stateAfter(newGameState, SubSeq(GrayChoice, 1, n)) :
          n \in 0 .. Len(GrayChoice)}

Fingerprints ==
  {[state |-> s, tensor |-> canonicalOf(s),
    key |-> tensorToString(canonicalOf(s))] : s \in Fingerprinted}

\* The same mode flag, the same four reserve counts and the same content on
\* every square.
sameContent(t, u) ==
  /\ t[0] = u[0]
  /\ \A c \in 5 .. 8 : t[c * channelSize] = u[c * channelSize]
  /\ \A i \in channelSize .. (5 * channelSize - 1) : t[i] = u[i]

\* C35: the canonical tensor of the position reached and the canonical
\* tensor of any of the positions compared have the same tensorToString key
\* if and only if they have the same mode flag, the same four reserve counts
\* and the same content on every square.
C35_Injective ==
  \A t \in {canonicalBoard} :
    \A k \in {tensorToString(t)} :
      \A r \in Fingerprints : (k = r.key) <=> sameContent(t, r.tensor)

\* The position reached has the key of a position compared in which the
\* other player is to move and the colours are exchanged; and it has not the
\* key of another one, from which it differs on the board only.
C35_Witness ==
  /\ lastCall.op = "placePiece"
  /\ error = NoError
  /\ \E t \in {canonicalBoard} :
       \E k \in {tensorToString(t)} :
         /\ \E r \in Fingerprints :
              /\ r.state.currentTurn # currentTurn
              /\ r.state.board # board
              /\ k = r.key
         /\ \E r \in Fingerprints :
              /\ k # r.key
              /\ t[0] = r.tensor[0]
              /\ \A c \in 5 .. 8 :
                   t[c * channelSize] = r.tensor[c * channelSize]


(***************************************************************************)
(* The caches of the legal placements                                      *)
(***************************************************************************)
EmptySquares == {pos \in Position : board[pos] = Null}

InReserve ==
  {tag \in {KittenOf(currentTurn), CatOf(currentTurn)} : availablePieces[tag] > 0}

CachesFresh ==
  /\ Range(placeableSquares) = EmptySquares
  /\ Len(placeableSquares) = Cardinality(EmptySquares)
  /\ Range(placeablePieces) = InReserve
  /\ Len(placeablePieces) = Cardinality(InReserve)

CachesEmpty == placeableSquares = << >> /\ placeablePieces = << >>

C36_Stale ==
  /\ Placed
  /\ gameOver
  /\ stateMode = "waiting_for_placement"
  /\ lastCall.position \in Range(placeableSquares)
  /\ board[lastCall.position] # Null


(***************************************************************************)
(* useBoopGame.ts: the hook holds the game state and the history for undo. *)
(* Both players are human, no move is being animated.  A step is one       *)
(* handler with the state updates it queued applied: the click on a square *)
(* (placePiece), the click on a graduation option (selectGraduation), the  *)
(* key 'u' (undo).  The calls follow the openings, with MaxFree calls off  *)
(* them; an undo leaves the openings.                                      *)
(***************************************************************************)
HookInit == Init

\* pushToHistory: setGameHistory(prev => [...prev, gameState.clone()])
pushToHistory == gameHistory' = Append(gameHistory, State)

\* placePiece of the hook.  selectedPieceType is one of placeablePieces, the
\* one the effect on the turn chose or the one selectPieceType accepted.
HookPlacePiece(selectedPieceType, position) ==
  LET call == Place(selectedPieceType, position[1], position[2])
      r == placePiece(State, selectedPieceType, position)
  IN  /\ stateMode = "waiting_for_placement"
      /\ selectedPieceType \in Range(placeablePieces)
      /\ Allowed(call)
      /\ pushToHistory
      /\ IF r.error = NoError THEN SetState(r.state) ELSE UNCHANGED gameVars
      /\ lastCall' = call
      /\ error' = r.error
      /\ effects' = IF r.error = NoError
                    THEN placeEffects(State, selectedPieceType, position)
                    ELSE NoEffects(State)
      /\ Budget(call)
      /\ UNCHANGED << codecVars, mctsVars, boopVars, cloneVars, workerVars >>

\* selectGraduation of the hook
HookSelectGraduation(choice) ==
  LET call == Choose(choice)
      r == chooseGraduation(State, choice)
  IN  /\ stateMode = "waiting_for_graduation_choice"
      /\ Allowed(call)
      /\ pushToHistory
      /\ IF r.error = NoError THEN SetState(r.state) ELSE UNCHANGED gameVars
      /\ lastCall' = call
      /\ error' = r.error
      /\ effects' = IF r.error = NoError
                    THEN [NoEffects(State) EXCEPT
                            !.options = graduationChoices,
                            !.graduated = graduationChoices[findChoice(State, choice)]]
                    ELSE NoEffects(State)
      /\ Budget(call)
      /\ UNCHANGED << codecVars, mctsVars, boopVars, cloneVars, workerVars >>

\* The key 'u': the last state of the history is restored and taken off it.
Undo ==
  /\ gameHistory # << >>
  /\ SetState(gameHistory[Len(gameHistory)])
  /\ gameHistory' = SubSeq(gameHistory, 1, Len(gameHistory) - 1)
  /\ lastCall' = Called("undo")
  /\ error' = NoError
  /\ effects' = NoEffects(gameHistory[Len(gameHistory)])
  /\ opening' = {}
  /\ played' = 0
  /\ free' = free
  /\ UNCHANGED << codecVars, mctsVars, boopVars, cloneVars, workerVars >>

HookNext ==
  \/ \E selectedPieceType \in PieceType, position \in Position :
       HookPlacePiece(selectedPieceType, position)
  \/ \E choice \in ChoiceInputs : HookSelectGraduation(choice)
  \/ Undo

SpecHook == HookInit /\ [][HookNext]_vars

\* The step is a placement or a graduation choice of a human that the engine
\* rejected.
RejectedMove ==
  /\ lastCall'.op \in {"placePiece", "chooseGraduation"}
  /\ error' # NoError

\* C37: when the engine rejects a human placement or graduation choice, the
\* game state of the hook and its history are the same as before the attempt.
C37_NoSideEffect ==
  [][RejectedMove => (UNCHANGED gameVars /\ gameHistory' = gameHistory)]_vars

\* The half that holds: a rejected move leaves the game state of the hook as
\* it was.
C37_StateKept == [][RejectedMove => UNCHANGED gameVars]_vars

\* A click on an occupied square has been rejected: the history has one
\* more entry, the state the hook still holds.
C37_HistoryGrew ==
  /\ lastCall.op = "placePiece"
  /\ error = ErrOccupied
  /\ gameHistory # << >>
  /\ gameHistory[Len(gameHistory)] = State


(***************************************************************************)
(* The selection of the search.  A search call reads the root, the tables  *)
(* and what nnet.predict answers, and nothing else: no random number, no   *)
(* clock, no order of a Map.  What is left to check of its determinism is  *)
(* the action its selection loop keeps among equal scores.  The tables a   *)
(* call found are those every selection of its path read: the call writes  *)
(* Nsa, Qsa and Ns on its way back only.                                   *)
(***************************************************************************)
\* u of action a at the node s of the path, on the tables m: no valid action
\* has a greater u, and every valid action with a lower index has a lower u.
FirstOfGreatest(m, s, a) ==
  /\ m.Vs[s][a] > 0
  /\ \A b \in Actions :
       m.Vs[s][b] > 0 =>
         /\ ~greater(ucb(m, s, b), ucb(m, s, a), m.Ns[s])
         /\ b < a => greater(ucb(m, s, a), ucb(m, s, b), m.Ns[s])

\* u of the valid actions a and b is the same.
SameScore(m, s, a, b) ==
  /\ m.Vs[s][a] > 0
  /\ m.Vs[s][b] > 0
  /\ ~greater(ucb(m, s, a), ucb(m, s, b), m.Ns[s])
  /\ ~greater(ucb(m, s, b), ucb(m, s, a), m.Ns[s])

\* C38: at every internal node of every search call, the action selected is
\* a valid action of the greatest PUCT score on the tables the call found
\* and, of the valid actions with that score, the one with the lowest
\* index: the root, the tables and the answers of nnet.predict leave the
\* search no choice.
C38_Deterministic ==
  searches # << >> =>
    \A k \in DOMAIN LastSearch.path :
      FirstOfGreatest(LastSearch.found, LastSearch.path[k].s, LastSearch.path[k].a)

\* The last search call has selected at two nodes: at one, the first of
\* several actions of the same greatest score; at one, an action that has
\* valid actions of a lower score before it.
C38_Witness ==
  /\ searches # << >>
  /\ Len(LastSearch.path) >= 2
  /\ \E k \in DOMAIN LastSearch.path :
       \E b \in Actions :
         /\ b > LastSearch.path[k].a
         /\ SameScore(LastSearch.found, LastSearch.path[k].s, LastSearch.path[k].a, b)
  /\ \E k \in DOMAIN LastSearch.path :
       \E b \in Actions :
         /\ b < LastSearch.path[k].a
         /\ LastSearch.found.Vs[LastSearch.path[k].s][b] > 0

====
